---------------------------- MODULE Spec2Model ----------------------------
(***************************************************************************)
(* Model of the Polymarket up/down arbitrage bot.                          *)
(*                                                                         *)
(*   PositionManager   lib/position_manager.py      (specification SpecPM) *)
(*   MarketWebSocket   src/websocket_client.py      order-book cache       *)
(*   MarketManager     lib/market_manager.py        market roll-over       *)
(*   AskArbStrategy    apps/arb_runner.py           paired order engine    *)
(*   TradingBot        src/bot.py                   batch submission       *)
(*                                                                         *)
(* Prices are integers in thousandths of a dollar (1000 = $1.00), the      *)
(* clock is an integer number of seconds.                                  *)
(***************************************************************************)
EXTENDS Integers, Sequences, FiniteSets, TLC

\* Python's None where an object (a record here) is expected
None == [none |-> TRUE]

\* Python's None where a timestamp is expected
NoTimestamp == -1

(***************************************************************************)
(*                     PositionManager: state                              *)
(***************************************************************************)
VARIABLES
    max_positions,       \* PositionManager.max_positions
    positions,           \* PositionManager._positions: id -> Position
    positions_by_side,   \* PositionManager._positions_by_side: side -> id
    trades_opened,
    trades_closed,
    total_pnl,
    winning_trades,
    losing_trades,
    pm_call,             \* the call last made on the manager
    pm_ret               \* what that call returned

pmState == <<max_positions, positions, positions_by_side, trades_opened,
             trades_closed, total_pnl, winning_trades, losing_trades>>
pmVars == <<pmState, pm_call, pm_ret>>

\* ---- bounds of the PositionManager model
MaxOpened == 3           \* open_position succeeds at most this many times
MaxCapacity == 2         \* max_positions is drawn from 1..MaxCapacity

Sides == {"up", "down", "flat"}
PosIds == {"p1", "p2", "p3"}
EntryPrices == {400, 500}
PnLs == {-1, 0, 1}

\* Position (the fields the manager reads or reports)
Position(id, side, entry_price, size) ==
    [id |-> id, side |-> side, entry_price |-> entry_price, size |-> size]

position_count == Cardinality(DOMAIN positions)

\* can_open_position without the capacity test
can_open_position_unbounded == TRUE

can_open_position == position_count < max_positions

\* dict.pop / del on a function
DictRemove(d, k) == [x \in (DOMAIN d) \ {k} |-> d[x]]

DictPut(d, k, v) == [x \in (DOMAIN d) \cup {k} |-> IF x = k THEN v ELSE d[x]]

EmptyDict == [x \in {} |-> None]

PMInit ==
    /\ max_positions \in 1..MaxCapacity
    /\ positions = EmptyDict
    /\ positions_by_side = EmptyDict
    /\ trades_opened = 0
    /\ trades_closed = 0
    /\ total_pnl = 0
    /\ winning_trades = 0
    /\ losing_trades = 0
    /\ pm_call = [op |-> "init"]
    /\ pm_ret = None

\* open_position counting the attempt before it looks at the side index
open_position_counting_attempts(side, entry_price, size, pos_id) ==
    /\ pm_call' = [op |-> "open", side |-> side, entry_price |-> entry_price,
                   size |-> size]
    /\ IF ~can_open_position
       THEN /\ pm_ret' = None
            /\ UNCHANGED pmState
       ELSE IF side \in DOMAIN positions_by_side
       THEN /\ pm_ret' = None
            /\ trades_opened' = trades_opened + 1
            /\ UNCHANGED <<max_positions, positions, positions_by_side,
                           trades_closed, total_pnl, winning_trades,
                           losing_trades>>
       ELSE /\ positions' = DictPut(positions, pos_id,
                                    Position(pos_id, side, entry_price, size))
            /\ positions_by_side' = DictPut(positions_by_side, side, pos_id)
            /\ trades_opened' = trades_opened + 1
            /\ pm_ret' = Position(pos_id, side, entry_price, size)
            /\ UNCHANGED <<max_positions, trades_closed, total_pnl,
                           winning_trades, losing_trades>>

\* open_position(side, token_id, entry_price, size); pos_id is the fresh uuid
open_position(side, entry_price, size, pos_id) ==
    /\ pm_call' = [op |-> "open", side |-> side, entry_price |-> entry_price,
                   size |-> size]
    /\ IF ~can_open_position
       THEN /\ pm_ret' = None
            /\ UNCHANGED pmState
       ELSE IF side \in DOMAIN positions_by_side
       THEN /\ pm_ret' = None
            /\ UNCHANGED pmState
       ELSE /\ positions' = DictPut(positions, pos_id,
                                    Position(pos_id, side, entry_price, size))
            /\ positions_by_side' = DictPut(positions_by_side, side, pos_id)
            /\ trades_opened' = trades_opened + 1
            /\ pm_ret' = Position(pos_id, side, entry_price, size)
            /\ UNCHANGED <<max_positions, trades_closed, total_pnl,
                           winning_trades, losing_trades>>

\* close_position counting a break-even close as a loss
close_position_strict_win(position_id, realized_pnl) ==
    /\ pm_call' = [op |-> "close", id |-> position_id, pnl |-> realized_pnl]
    /\ IF position_id \notin DOMAIN positions
       THEN /\ pm_ret' = None
            /\ UNCHANGED pmState
       ELSE LET position == positions[position_id] IN
            /\ positions' = DictRemove(positions, position_id)
            /\ positions_by_side' =
                 IF /\ position.side \in DOMAIN positions_by_side
                    /\ positions_by_side[position.side] = position_id
                 THEN DictRemove(positions_by_side, position.side)
                 ELSE positions_by_side
            /\ trades_closed' = trades_closed + 1
            /\ total_pnl' = total_pnl + realized_pnl
            /\ IF realized_pnl > 0
               THEN /\ winning_trades' = winning_trades + 1
                    /\ UNCHANGED losing_trades
               ELSE /\ losing_trades' = losing_trades + 1
                    /\ UNCHANGED winning_trades
            /\ pm_ret' = position
            /\ UNCHANGED <<max_positions, trades_opened>>

\* close_position(position_id, realized_pnl)
close_position(position_id, realized_pnl) ==
    /\ pm_call' = [op |-> "close", id |-> position_id, pnl |-> realized_pnl]
    /\ IF position_id \notin DOMAIN positions
       THEN /\ pm_ret' = None
            /\ UNCHANGED pmState
       ELSE LET position == positions[position_id] IN
            /\ positions' = DictRemove(positions, position_id)
            /\ positions_by_side' =
                 IF /\ position.side \in DOMAIN positions_by_side
                    /\ positions_by_side[position.side] = position_id
                 THEN DictRemove(positions_by_side, position.side)
                 ELSE positions_by_side
            /\ trades_closed' = trades_closed + 1
            /\ total_pnl' = total_pnl + realized_pnl
            /\ IF realized_pnl >= 0
               THEN /\ winning_trades' = winning_trades + 1
                    /\ UNCHANGED losing_trades
               ELSE /\ losing_trades' = losing_trades + 1
                    /\ UNCHANGED winning_trades
            /\ pm_ret' = position
            /\ UNCHANGED <<max_positions, trades_opened>>

\* clear emptying the id-keyed index only
clear_ids_only ==
    /\ pm_call' = [op |-> "clear"]
    /\ pm_ret' = None
    /\ positions' = EmptyDict
    /\ UNCHANGED <<max_positions, positions_by_side, trades_opened,
                   trades_closed, total_pnl, winning_trades, losing_trades>>

\* clear()
clear ==
    /\ pm_call' = [op |-> "clear"]
    /\ pm_ret' = None
    /\ positions' = EmptyDict
    /\ positions_by_side' = EmptyDict
    /\ UNCHANGED <<max_positions, trades_opened, trades_closed, total_pnl,
                   winning_trades, losing_trades>>

(***************************************************************************)
(*        MarketWebSocket: order-book snapshots and the cache              *)
(***************************************************************************)
VARIABLES
    orderbooks,          \* MarketWebSocket._orderbooks: asset id -> snapshot
    subscribed_assets,   \* MarketWebSocket._subscribed_assets
    ws_pending,          \* _run_loop: the frame recv() returned, not yet handled
    ws_running,          \* MarketWebSocket._running
    ws_conn,             \* MarketWebSocket._ws: "none", "open" or "closed"
    ws_pc                \* where the task running MarketWebSocket.run() is

wsVars == <<orderbooks, subscribed_assets, ws_pending, ws_running, ws_conn,
           ws_pc>>

OrderbookLevel(price, size) == [price |-> price, size |-> size]

\* list.sort(key=price): stable insertion into an ascending list
RECURSIVE InsertAsc(_, _)
InsertAsc(x, sorted) ==
    IF sorted = <<>> THEN <<x>>
    ELSE IF x.price < Head(sorted).price THEN <<x>> \o sorted
    ELSE <<Head(sorted)>> \o InsertAsc(x, Tail(sorted))

\* list.sort(key=price, reverse=True): stable insertion into a descending list
RECURSIVE InsertDesc(_, _)
InsertDesc(x, sorted) ==
    IF sorted = <<>> THEN <<x>>
    ELSE IF x.price > Head(sorted).price THEN <<x>> \o sorted
    ELSE <<Head(sorted)>> \o InsertDesc(x, Tail(sorted))

RECURSIVE SortAscFrom(_, _)
SortAscFrom(levels, acc) ==
    IF levels = <<>> THEN acc
    ELSE SortAscFrom(Tail(levels), InsertAsc(Head(levels), acc))

RECURSIVE SortDescFrom(_, _)
SortDescFrom(levels, acc) ==
    IF levels = <<>> THEN acc
    ELSE SortDescFrom(Tail(levels), InsertDesc(Head(levels), acc))

SortAsks(levels) == SortAscFrom(levels, <<>>)

SortBids(levels) == SortDescFrom(levels, <<>>)

\* from_message keeping the levels in the order of the message
from_message_unsorted(msg) ==
    [asset_id |-> msg.asset_id, bids |-> msg.bids, asks |-> msg.asks]

\* OrderbookSnapshot.from_message
from_message(msg) ==
    [asset_id |-> msg.asset_id,
     bids |-> SortBids(msg.bids),
     asks |-> SortAsks(msg.asks)]

\* best_ask reading an empty ask list as a free offer
best_ask_zero_default(ob) == IF Len(ob.asks) > 0 THEN ob.asks[1].price ELSE 0

\* OrderbookSnapshot.best_bid / best_ask
best_bid(ob) == IF Len(ob.bids) > 0 THEN ob.bids[1].price ELSE 0

best_ask(ob) == IF Len(ob.asks) > 0 THEN ob.asks[1].price ELSE 1000

\* a "book" frame as the venue sends it
BookMsg(asset_id, bids, asks) ==
    [event_type |-> "book", asset_id |-> asset_id, bids |-> bids, asks |-> asks]

\* a "price_change" or "last_trade_price" frame
OtherMsg(event_type, asset_id) ==
    [event_type |-> event_type, asset_id |-> asset_id, bids |-> <<>>, asks |-> <<>>]

\* _handle_message: what it makes of the cache
handle_message_cache(cache, data) ==
    IF data.event_type = "book"
    THEN LET snapshot == from_message(data)
         IN  DictPut(cache, snapshot.asset_id, snapshot)
    ELSE cache

(***************************************************************************)
(*                 MarketManager: the tradeable market                     *)
(***************************************************************************)
VARIABLES
    current_market,      \* MarketManager.current_market (None or a MarketInfo)
    previous_slug,       \* MarketManager._previous_slug
    mm_running,          \* MarketManager._running
    ws_connected,        \* MarketManager._ws_connected
    mc_pc,               \* where the task running _market_check_loop() is
    mc_old,              \* its local old_market
    mc_new,              \* its local market (the discovery result)
    stop_pc              \* where MarketManager.stop() is

mmVars == <<current_market, previous_slug, mm_running, ws_connected,
            mc_pc, mc_old, mc_new, stop_pc>>

\* MarketInfo: slug_ts and end_ts are what slug_timestamp() and
\* end_timestamp() parse out of the slug and of end_date (NoTimestamp: None)
MarketInfo(slug, up, down, slug_ts, end_ts) ==
    [slug |-> slug, token_ids |-> [up |-> up, down |-> down],
     slug_ts |-> slug_ts, end_ts |-> end_ts]

MarketA == MarketInfo("eth-updown-15m-100", "u1", "d1", 100, 1000)

MarketB == MarketInfo("eth-updown-15m-200", "u2", "d2", 200, 1900)

\* what the discovery collaborator may return (None: no accepting market)
Discoverable == {MarketA, MarketB}

AllTokens == {"u1", "d1", "u2", "d2"}

TokenSet(market) ==
    IF market = None THEN {}
    ELSE {market.token_ids[side] : side \in DOMAIN market.token_ids}

slug_timestamp(market) == market.slug_ts

end_timestamp(market) == market.end_ts

\* a sort key that prefers the end timestamp
market_sort_key_end_first(market) ==
    IF end_timestamp(market) # NoTimestamp
    THEN end_timestamp(market)
    ELSE slug_timestamp(market)

\* _market_sort_key: slug_timestamp() or end_timestamp()
market_sort_key(market) ==
    IF slug_timestamp(market) # NoTimestamp /\ slug_timestamp(market) # 0
    THEN slug_timestamp(market)
    ELSE end_timestamp(market)

\* a _should_switch_market that lets a market of the same key through
should_switch_market_on_equal_key(old_market, new_market) ==
    IF old_market = None THEN TRUE
    ELSE IF TokenSet(new_market) = TokenSet(old_market) THEN FALSE
    ELSE market_sort_key(old_market) = NoTimestamp
         \/ market_sort_key(new_market) = NoTimestamp
         \/ market_sort_key(new_market) >= market_sort_key(old_market)

\* _should_switch_market
should_switch_market(old_market, new_market) ==
    IF old_market = None THEN TRUE
    ELSE IF TokenSet(new_market) = TokenSet(old_market) THEN FALSE
    ELSE LET old_key == market_sort_key(old_market)
             new_key == market_sort_key(new_market)
         IN  IF old_key # NoTimestamp /\ new_key # NoTimestamp /\ new_key <= old_key
             THEN FALSE
             ELSE TRUE

\* MarketManager.get_orderbook(side), read from a given cache
get_orderbook(cache, market, side) ==
    IF market = None THEN None
    ELSE LET token_id == market.token_ids[side]
         IN  IF token_id \in DOMAIN cache THEN cache[token_id] ELSE None

\* MarketManager.get_best_ask(side)
get_best_ask(cache, market, side) ==
    LET ob == get_orderbook(cache, market, side)
    IN  IF ob # None THEN best_ask(ob) ELSE 1000

\* MarketWebSocket.is_connected
is_connected == ws_conn = "open"

(***************************************************************************)
(*          AskArbStrategy and TradingBot: the paired order engine         *)
(***************************************************************************)
VARIABLES
    trade_size,               \* AskArbStrategy configuration
    min_spread,
    cooldown_seconds,
    max_trades,
    price_buffer,
    trades,                   \* AskArbStrategy.trades: sequence of ArbTrade
    total_invested,
    total_guaranteed_return,
    last_trade_time,
    opportunities_seen,
    arb_inflight,             \* locals of the _handle_arb awaiting its batch
    orders_sent,              \* every batch handed to place_orders_batch
    now                       \* time.time()

cfgVars == <<trade_size, min_spread, cooldown_seconds, max_trades, price_buffer>>
arbVars == <<cfgVars, trades, total_invested, total_guaranteed_return,
             last_trade_time, opportunities_seen, arb_inflight, orders_sent, now>>

(***************************************************************************)
(*   State of the specifications that exercise one component on its own    *)
(***************************************************************************)
VARIABLES
    auto_reconnect,      \* run(auto_reconnect)
    ws_sent,             \* frames handed to _ws.send on the current connection
    ws_handled,          \* inbound frames handled on the current connection
    ws_event,            \* what the receive loop last met
    connects,            \* connect() attempts made by run()
    hook_disconnects,    \* invocations of the disconnect hook
    stop_called,         \* MarketWebSocket.stop() was called
    sub_pc,              \* where the task calling subscribe() is
    sub_call,            \* its arguments, and what it found when called
    sub_conn,            \* the connection its pending send was made on
    sub_ret,             \* what subscribe() returned
    sub_calls            \* subscribe() calls made

clientVars == <<auto_reconnect, ws_sent, ws_handled, ws_event, connects,
                hook_disconnects, stop_called, sub_pc, sub_call, sub_conn,
                sub_ret, sub_calls>>

VARIABLES
    conn_call,           \* the connect() call last made: transport and hooks
    conn_ret,            \* how it ended: "true", "false" or "raised"
    hook_connects,       \* invocations of the connect hook
    hook_errors          \* invocations of the error hook

connectVars == <<conn_call, conn_ret, hook_connects, hook_errors>>

VARIABLES
    observers,           \* MarketManager._on_book_callbacks: what each one does
    fan_pc,              \* where the task handling a frame is
    fan_item,            \* the item being handled
    fan_next,            \* index of the observer to invoke next
    fan_seq,             \* items received so far
    fan_log              \* cache writes and observer invocations, in order

fanVars == <<observers, fan_pc, fan_item, fan_next, fan_seq, fan_log>>

VARIABLES
    sw_old,              \* _should_switch_market: old_market
    sw_new,              \* new_market
    sw_ret               \* its result ("none" before the call)

switchVars == <<sw_old, sw_new, sw_ret>>

VARIABLES
    mk_current,          \* MarketManager.current_market
    mk_previous_slug,    \* _previous_slug
    mk_subscribed,       \* the token ids the WebSocket client is subscribed to
    mk_observers,        \* _on_market_change_callbacks: what each one does
    lp_pc,               \* where _market_check_loop is
    lp_old,              \* its old_market
    lp_new,              \* its market
    lp_trace,            \* what its current iteration did, in order
    lp_checks,           \* iterations started
    rf_pc,               \* where refresh_market() is
    rf_old,              \* its old_market
    rf_new,              \* its market
    rf_calls             \* calls of refresh_market() made

marketVars == <<mk_current, mk_previous_slug, mk_subscribed, mk_observers,
                lp_pc, lp_old, lp_new, lp_trace, lp_checks,
                rf_pc, rf_old, rf_new, rf_calls>>

VARIABLES
    tk_history,          \* PriceTracker._history: side -> retained points
    tk_now,              \* time.time()
    tk_call,             \* the call last made on the tracker
    tk_ret               \* what that call returned

trackerVars == <<tk_history, tk_now, tk_call, tk_ret>>

VARIABLES
    kv_salt,             \* KeyManager.salt
    kv_envelope,         \* the envelope the last successful encrypt() returned
    kv_earlier,          \* the salts of the envelopes returned before that one
    kv_call,             \* the call last made on the key manager
    kv_ret               \* what that call returned or raised

vaultVars == <<kv_salt, kv_envelope, kv_earlier, kv_call, kv_ret>>

VARIABLES
    rq_retry_count,      \* ApiClient.retry_count
    rq_pc,               \* where _request is
    rq_attempt,          \* attempts begun
    rq_errors,           \* what each failed attempt raised, in order
    rq_sleeps            \* the seconds of each time.sleep, in order

requestVars == <<rq_retry_count, rq_pc, rq_attempt, rq_errors, rq_sleeps>>

VARIABLES
    au_client,           \* the client constructed: its class and credentials
    au_pc,               \* where the authenticated operation is
    au_headers           \* the headers the operation handed to _request

authVars == <<au_client, au_pc, au_headers>>

VARIABLES
    bk_stale             \* history: the ids whose cached snapshot was received
                         \* on a connection earlier than the current one

staleVars == <<bk_stale>>

VARIABLES
    dc_pc                \* where the task calling disconnect() is

hookVars == <<dc_pc>>

VARIABLES
    fp_in,               \* the asks and the configuration handle_book meets
    fp_out               \* the limit prices _handle_arb submitted, or None

pricingVars == <<fp_in, fp_out>>

VARIABLES
    sg_now,              \* time.time(), in half seconds since the start
    sg_orders,           \* the Order objects constructed, in order
    sg_signed,           \* the order dicts sign_order returned, in order
    sg_ret               \* how the last call on Order or OrderSigner ended

signerVars == <<sg_now, sg_orders, sg_signed, sg_ret>>

extraVars == <<authVars, staleVars, hookVars, pricingVars, signerVars>>

unitVars == <<marketVars, trackerVars, vaultVars, requestVars, extraVars>>

componentVars == <<clientVars, connectVars, fanVars, switchVars, unitVars>>

\* the component state other than the history of the cache
sessionOthers == <<clientVars, connectVars, fanVars, switchVars, marketVars,
                   trackerVars, vaultVars, requestVars, authVars, hookVars,
                   pricingVars, signerVars>>

ClientIdle ==
    /\ auto_reconnect = TRUE
    /\ ws_sent = <<>>
    /\ ws_handled = 0
    /\ ws_event = "none"
    /\ connects = 0
    /\ hook_disconnects = 0
    /\ stop_called = FALSE
    /\ sub_pc = "idle"
    /\ sub_call = None
    /\ sub_conn = 0
    /\ sub_ret = "none"
    /\ sub_calls = 0

ConnectIdle ==
    /\ conn_call = None
    /\ conn_ret = "none"
    /\ hook_connects = 0
    /\ hook_errors = 0

FanIdle ==
    /\ observers = <<>>
    /\ fan_pc = "idle"
    /\ fan_item = None
    /\ fan_next = 0
    /\ fan_seq = 0
    /\ fan_log = <<>>

SwitchIdle ==
    /\ sw_old = None
    /\ sw_new = None
    /\ sw_ret = "none"

MarketIdle ==
    /\ mk_current = None
    /\ mk_previous_slug = None
    /\ mk_subscribed = {}
    /\ mk_observers = <<>>
    /\ lp_pc = "sleep"
    /\ lp_old = None
    /\ lp_new = None
    /\ lp_trace = <<>>
    /\ lp_checks = 0
    /\ rf_pc = "idle"
    /\ rf_old = None
    /\ rf_new = None
    /\ rf_calls = 0

TrackerIdle ==
    /\ tk_history = None
    /\ tk_now = 0
    /\ tk_call = None
    /\ tk_ret = None

VaultIdle ==
    /\ kv_salt = None
    /\ kv_envelope = None
    /\ kv_earlier = {}
    /\ kv_call = None
    /\ kv_ret = None

RequestIdle ==
    /\ rq_retry_count = 0
    /\ rq_pc = "idle"
    /\ rq_attempt = 0
    /\ rq_errors = <<>>
    /\ rq_sleeps = <<>>

AuthIdle ==
    /\ au_client = None
    /\ au_pc = "none"
    /\ au_headers = None

StaleIdle == bk_stale = {}

HookIdle == dc_pc = "idle"

PricingIdle == fp_in = None /\ fp_out = None

SignerIdle ==
    /\ sg_now = 0
    /\ sg_orders = <<>>
    /\ sg_signed = <<>>
    /\ sg_ret = "none"

ExtraIdle ==
    AuthIdle /\ StaleIdle /\ HookIdle /\ PricingIdle /\ SignerIdle

UnitsIdle ==
    MarketIdle /\ TrackerIdle /\ VaultIdle /\ RequestIdle /\ ExtraIdle

ComponentsIdle ==
    ClientIdle /\ ConnectIdle /\ FanIdle /\ SwitchIdle /\ UnitsIdle

vars == <<pmVars, wsVars, mmVars, arbVars, componentVars>>

\* ---- bounds of the session model
MaxTicks == 1            \* the clock advances at most this far
MaxOpportunities == 2    \* frames arrive until this many opportunities were seen

Epoch == 10              \* the clock's reading when the session starts
PriceCap == 990          \* the 0.99 ceiling of a limit price

\* (min_spread, price_buffer, max_trades) triples the session may be
\* configured with
SessionConfigs == {<<4, 2, 2>>, <<2, 1, 1>>}
CooldownChoices == {1}
SizeChoices == {5}
ArbAsks == {1, 995}

Min(a, b) == IF a <= b THEN a ELSE b

\* ArbTrade
ArbTrade(id, up_ask, down_ask, ask_sum, spread, size, timestamp) ==
    [id |-> id, up_ask |-> up_ask, down_ask |-> down_ask, ask_sum |-> ask_sum,
     spread |-> spread, size |-> size, timestamp |-> timestamp,
     up_order_ok |-> FALSE, down_order_ok |-> FALSE]

profit_per_pair(t) == t.spread * t.size

both_filled(t) == t.up_order_ok /\ t.down_order_ok

trade_count == Len(trades)

\* the profit summed over every recorded trade, filled or not
RECURSIVE SumProfitOfAll(_)
SumProfitOfAll(ts) ==
    IF ts = <<>> THEN 0
    ELSE profit_per_pair(Head(ts)) + SumProfitOfAll(Tail(ts))

total_profit_of_all == SumProfitOfAll(trades)

RECURSIVE SumProfit(_)
SumProfit(ts) ==
    IF ts = <<>> THEN 0
    ELSE (IF both_filled(Head(ts)) THEN profit_per_pair(Head(ts)) ELSE 0)
         + SumProfit(Tail(ts))

\* AskArbStrategy.total_profit
total_profit == SumProfit(trades)

\* can_trade without the trade-count test
can_trade_without_cap == now - last_trade_time >= cooldown_seconds

\* can_trade without the cooldown test
can_trade_without_cooldown == trade_count < max_trades

\* AskArbStrategy.can_trade
can_trade ==
    IF trade_count >= max_trades THEN FALSE
    ELSE IF now - last_trade_time < cooldown_seconds THEN FALSE
    ELSE TRUE

\* the limit price without the 0.99 ceiling
limit_price_uncapped(ask) == ask + price_buffer

\* the limit price of one leg
limit_price(ask) == Min(ask + price_buffer, PriceCap)

\* the two orders _handle_arb builds
arb_orders(market, up_ask, down_ask) ==
    << [token_id |-> market.token_ids["up"], price |-> limit_price(up_ask),
        size |-> trade_size, side |-> "BUY"],
       [token_id |-> market.token_ids["down"], price |-> limit_price(down_ask),
        size |-> trade_size, side |-> "BUY"] >>

OrderResult(success) == [success |-> success]

\* what the venue (or the transport) makes of a batch request
ListShapes == {"list", "results", "data"}

Flags(n) == [1..n -> BOOLEAN]

Responses ==
    [shape : ListShapes, items : Flags(0) \cup Flags(1) \cup Flags(2)]
    \cup [shape : {"single"}, items : Flags(1)]
    \cup [shape : {"other", "raise"}, items : Flags(0)]

\* TradingBot.place_orders_batch
place_orders_batch(orders, response) ==
    IF response.shape \in ListShapes
    THEN [i \in 1..Len(response.items) |-> OrderResult(response.items[i])]
    ELSE IF response.shape = "single"
    THEN <<OrderResult(response.items[1])>>
    ELSE IF response.shape = "other"
    THEN <<OrderResult(FALSE)>>
    ELSE [i \in 1..Len(orders) |-> OrderResult(FALSE)]

\* a record that marks both legs with the success of the pair
recorded_trade_all_or_nothing(trade, results) ==
    LET up_result == IF Len(results) > 0 THEN results[1] ELSE OrderResult(FALSE)
        down_result == IF Len(results) > 1 THEN results[2] ELSE OrderResult(FALSE)
        pair_ok == up_result.success /\ down_result.success
    IN  [trade EXCEPT !.up_order_ok = pair_ok, !.down_order_ok = pair_ok]

\* _handle_arb, after the batch returned: the record it appends
recorded_trade(trade, results) ==
    LET up_result == IF Len(results) > 0 THEN results[1] ELSE OrderResult(FALSE)
        down_result == IF Len(results) > 1 THEN results[2] ELSE OrderResult(FALSE)
    IN  [trade EXCEPT !.up_order_ok = up_result.success,
                      !.down_order_ok = down_result.success]

(***************************************************************************)
(*                    The trading session: initial state                   *)
(*  AskArbStrategy.run() has built the bot and MarketManager.start() has   *)
(*  returned: the first market is discovered and subscribed (not yet       *)
(*  connected), the protocol task and the market-check task are created.   *)
(***************************************************************************)
PMIdle ==
    /\ max_positions = 1
    /\ positions = EmptyDict
    /\ positions_by_side = EmptyDict
    /\ trades_opened = 0
    /\ trades_closed = 0
    /\ total_pnl = 0
    /\ winning_trades = 0
    /\ losing_trades = 0
    /\ pm_call = [op |-> "init"]
    /\ pm_ret = None

WsInit ==
    /\ orderbooks = EmptyDict
    /\ subscribed_assets = TokenSet(MarketA)
    /\ ws_pending = <<>>
    /\ ws_running = TRUE
    /\ ws_conn = "none"
    /\ ws_pc = "connecting"

MMInit ==
    /\ current_market = MarketA
    /\ previous_slug = MarketA.slug
    /\ mm_running = TRUE
    /\ ws_connected = FALSE
    /\ mc_pc = "sleep"
    /\ mc_old = None
    /\ mc_new = None
    /\ stop_pc = "running"

ArbInit ==
    /\ trades = <<>>
    /\ total_invested = 0
    /\ total_guaranteed_return = 0
    /\ last_trade_time = 0
    /\ opportunities_seen = 0
    /\ arb_inflight = None
    /\ orders_sent = <<>>
    /\ now = Epoch

ConfigInit ==
    /\ trade_size \in SizeChoices
    /\ \E c \in SessionConfigs :
          min_spread = c[1] /\ price_buffer = c[2] /\ max_trades = c[3]
    /\ cooldown_seconds \in CooldownChoices

ConfigDefault ==
    /\ trade_size = 5
    /\ min_spread = 20
    /\ price_buffer = 10
    /\ cooldown_seconds = 5
    /\ max_trades = 10

Init == PMIdle /\ WsInit /\ MMInit /\ ArbInit /\ ConfigInit /\ ComponentsIdle

(***************************************************************************)
(*                 The protocol task: MarketWebSocket.run()                *)
(***************************************************************************)
\* run(): _run_loop() has returned; the disconnect hook, then sleep or leave
LoopExit ==
    /\ ws_connected' = FALSE
    /\ ws_pc' = IF ws_running THEN "sleeping" ELSE "done"

\* _run_loop(): the head of the loop, with the connection as conn
LoopHead(conn) ==
    IF ws_running /\ conn = "open"
    THEN ws_pc' = "recv" /\ UNCHANGED ws_connected
    ELSE LoopExit

\* connect() succeeded: the connect hook, then the handshake or the loop
WsConnectOk ==
    /\ ws_pc = "connecting"
    /\ ws_conn' = "open"
    /\ ws_connected' = TRUE
    /\ ws_pc' = IF subscribed_assets # {} THEN "handshake" ELSE "recv"
    /\ UNCHANGED <<orderbooks, subscribed_assets, ws_pending, ws_running>>
    /\ UNCHANGED <<current_market, previous_slug, mm_running, mc_pc, mc_old,
                   mc_new, stop_pc>>
    /\ UNCHANGED <<arbVars, pmVars>>
    /\ UNCHANGED componentVars

\* connect() failed: run(auto_reconnect=True) sleeps and tries again
WsConnectFail ==
    /\ ws_pc = "connecting"
    /\ ws_pc' = "sleeping"
    /\ UNCHANGED <<orderbooks, subscribed_assets, ws_pending, ws_running, ws_conn>>
    /\ UNCHANGED <<mmVars, arbVars, pmVars>>
    /\ UNCHANGED componentVars

\* the reconnect delay is over
WsWake ==
    /\ ws_pc = "sleeping"
    /\ ws_pc' = IF ws_running THEN "connecting" ELSE "done"
    /\ UNCHANGED <<orderbooks, subscribed_assets, ws_pending, ws_running, ws_conn>>
    /\ UNCHANGED <<mmVars, arbVars, pmVars>>
    /\ UNCHANGED componentVars

\* the post-connect handshake frame was sent, or its send raised
WsHandshake ==
    /\ ws_pc = "handshake"
    /\ IF ws_conn = "open"
       THEN LoopHead(ws_conn)
       ELSE ws_pc' = "crashed" /\ UNCHANGED ws_connected
    /\ UNCHANGED <<orderbooks, subscribed_assets, ws_pending, ws_running, ws_conn>>
    /\ UNCHANGED <<current_market, previous_slug, mm_running, mc_pc, mc_old,
                   mc_new, stop_pc>>
    /\ UNCHANGED <<arbVars, pmVars>>
    /\ UNCHANGED componentVars

\* the peer or the network closes the connection
ConnDrop ==
    /\ ws_conn = "open"
    /\ ws_pc \in {"handshake", "recv", "inflight"}
    /\ ws_conn' = "closed"
    /\ UNCHANGED <<orderbooks, subscribed_assets, ws_pending, ws_running, ws_pc>>
    /\ UNCHANGED <<mmVars, arbVars, pmVars>>
    /\ UNCHANGED componentVars

\* recv() raises ConnectionClosed
WsRecvClosed ==
    /\ ws_pc = "recv"
    /\ ws_conn = "closed"
    /\ LoopExit
    /\ UNCHANGED <<orderbooks, subscribed_assets, ws_pending, ws_running, ws_conn>>
    /\ UNCHANGED <<current_market, previous_slug, mm_running, mc_pc, mc_old,
                   mc_new, stop_pc>>
    /\ UNCHANGED <<arbVars, pmVars>>
    /\ UNCHANGED componentVars

(***************************************************************************)
(*      A book frame: _handle_message, MarketManager's fan-out, and the    *)
(*      strategy's handle_book and _handle_arb up to the awaited batch     *)
(***************************************************************************)
\* the frames the venue sends in a session: one-level ask books of the
\* tokens the client has requested
SessionFrames ==
    {BookMsg(t, <<>>, asks) :
        t \in subscribed_assets,
        asks \in {<<>>} \cup {<<OrderbookLevel(p, 1)>> : p \in ArbAsks}}

\* _handle_arb returns before submitting, or handle_book never calls it
NoSubmission ==
    /\ ws_pc' = "recv"
    /\ UNCHANGED <<arb_inflight, orders_sent>>

\* _handle_arb(up_ask, down_ask, ask_sum, spread)
handle_arb(up_ask, down_ask, ask_sum, spread) ==
    IF ~can_trade
    THEN NoSubmission
    ELSE IF spread - (2 * price_buffer) <= 0
    THEN NoSubmission
    ELSE LET trade == ArbTrade(trade_count + 1, up_ask, down_ask, ask_sum,
                               spread, trade_size, now)
             orders == arb_orders(current_market, up_ask, down_ask)
         IN  /\ arb_inflight' = [trade |-> trade, orders |-> orders]
             /\ orders_sent' = Append(orders_sent, [orders |-> orders, at |-> now])
             /\ ws_pc' = "inflight"

\* AskArbStrategy.run.handle_book, run on the cache the frame has updated
handle_book(cache) ==
    LET up_ob == get_orderbook(cache, current_market, "up")
        down_ob == get_orderbook(cache, current_market, "down")
    IN  IF up_ob = None \/ down_ob = None
        THEN NoSubmission /\ UNCHANGED opportunities_seen
        ELSE LET ask_sum == best_ask(up_ob) + best_ask(down_ob)
                 spread == 1000 - ask_sum
             IN  IF spread >= min_spread
                 THEN /\ opportunities_seen' = opportunities_seen + 1
                      /\ handle_arb(best_ask(up_ob), best_ask(down_ob),
                                    ask_sum, spread)
                 ELSE NoSubmission /\ UNCHANGED opportunities_seen

\* recv() returns a book frame
WsRecvBook(data) ==
    /\ ws_pc = "recv"
    /\ ws_conn = "open"
    /\ opportunities_seen < MaxOpportunities
    /\ orderbooks' = handle_message_cache(orderbooks, data)
    /\ handle_book(orderbooks')
    /\ UNCHANGED <<subscribed_assets, ws_pending, ws_running, ws_conn>>
    /\ UNCHANGED <<mmVars, pmVars>>
    /\ UNCHANGED <<cfgVars, trades, total_invested, total_guaranteed_return,
                   last_trade_time, now>>
    /\ UNCHANGED componentVars

RecvBook == \E data \in SessionFrames : WsRecvBook(data)

\* the awaited place_orders_batch returns: _handle_arb records the trade
OrderComplete(response) ==
    /\ ws_pc = "inflight"
    /\ LET results == place_orders_batch(arb_inflight.orders, response)
           trade == recorded_trade(arb_inflight.trade, results)
           up_price == arb_inflight.orders[1].price
           down_price == arb_inflight.orders[2].price
       IN  /\ trades' = Append(trades, trade)
           /\ last_trade_time' = now
           /\ IF both_filled(trade)
              THEN /\ total_invested' =
                        total_invested + (up_price + down_price) * trade_size
                   /\ total_guaranteed_return' =
                        total_guaranteed_return + trade_size
              ELSE UNCHANGED <<total_invested, total_guaranteed_return>>
    /\ arb_inflight' = None
    /\ LoopHead(ws_conn)
    /\ UNCHANGED <<orderbooks, subscribed_assets, ws_pending, ws_running, ws_conn>>
    /\ UNCHANGED <<current_market, previous_slug, mm_running, mc_pc, mc_old,
                   mc_new, stop_pc>>
    /\ UNCHANGED <<cfgVars, opportunities_seen, orders_sent, now, pmVars>>
    /\ UNCHANGED componentVars

BatchReturns == \E response \in Responses : OrderComplete(response)

(***************************************************************************)
(*          The market-check task: MarketManager._market_check_loop        *)
(***************************************************************************)
\* _update_current_market, and back to the sleep at the head of the loop
UpdateAndSleep(market) ==
    /\ previous_slug' = market.slug
    /\ current_market' = market
    /\ mc_pc' = "sleep"
    /\ mc_old' = None
    /\ mc_new' = None

\* continue: back to the sleep with the market left as it is
KeepAndSleep ==
    /\ mc_pc' = "sleep"
    /\ mc_old' = None
    /\ mc_new' = None
    /\ UNCHANGED <<current_market, previous_slug>>

\* the sleep is over: the loop reads current_market and starts a discovery
McWake ==
    /\ mc_pc = "sleep"
    /\ mm_running
    /\ mc_old' = current_market
    /\ mc_pc' = "discover"
    /\ UNCHANGED <<current_market, previous_slug, mm_running, ws_connected,
                   mc_new, stop_pc>>
    /\ UNCHANGED <<wsVars, arbVars, pmVars>>
    /\ UNCHANGED componentVars

\* discover_market(update_state=False) returns market (or None)
McDiscovered(market) ==
    /\ mc_pc = "discover"
    /\ IF market = None
       THEN KeepAndSleep /\ UNCHANGED <<subscribed_assets, orderbooks>>
       ELSE IF TokenSet(market) = TokenSet(mc_old)
       THEN UpdateAndSleep(market) /\ UNCHANGED <<subscribed_assets, orderbooks>>
       ELSE IF ~should_switch_market(mc_old, market)
       THEN KeepAndSleep /\ UNCHANGED <<subscribed_assets, orderbooks>>
       ELSE \* ws.subscribe(list(new_tokens), replace=True)
            /\ subscribed_assets' = TokenSet(market)
            /\ orderbooks' = EmptyDict
            /\ IF ~is_connected
               THEN UpdateAndSleep(market)
               ELSE /\ mc_pc' = IF subscribed_assets # {} THEN "send_unsub"
                                                          ELSE "send_sub"
                    /\ mc_new' = market
                    /\ UNCHANGED <<current_market, previous_slug, mc_old>>
    /\ UNCHANGED <<mm_running, ws_connected, stop_pc>>
    /\ UNCHANGED <<ws_pending, ws_running, ws_conn, ws_pc>>
    /\ UNCHANGED <<arbVars, pmVars>>
    /\ UNCHANGED componentVars

Discovery == \E market \in Discoverable \cup {None} : McDiscovered(market)

\* subscribe(): the unsubscribe frame was sent, or its send raised
McUnsubSent ==
    /\ mc_pc = "send_unsub"
    /\ IF is_connected
       THEN /\ mc_pc' = "send_sub"
            /\ UNCHANGED <<current_market, previous_slug, mc_old, mc_new>>
       ELSE UpdateAndSleep(mc_new)
    /\ UNCHANGED <<mm_running, ws_connected, stop_pc>>
    /\ UNCHANGED <<wsVars, arbVars, pmVars>>
    /\ UNCHANGED componentVars

\* subscribe(): the subscribe frame was sent, or its send raised
McSubSent ==
    /\ mc_pc = "send_sub"
    /\ UpdateAndSleep(mc_new)
    /\ UNCHANGED <<mm_running, ws_connected, stop_pc>>
    /\ UNCHANGED <<wsVars, arbVars, pmVars>>
    /\ UNCHANGED componentVars

(***************************************************************************)
(*                 MarketManager.stop() and the clock                      *)
(***************************************************************************)
\* stop(): _running = False, the market-check task is cancelled and awaited
StopBegin ==
    /\ stop_pc = "running"
    /\ mm_running' = FALSE
    /\ mc_pc' = "cancelled"
    /\ mc_old' = None
    /\ mc_new' = None
    /\ stop_pc' = "await_mc"
    /\ UNCHANGED <<current_market, previous_slug, ws_connected>>
    /\ UNCHANGED <<wsVars, arbVars, pmVars>>
    /\ UNCHANGED componentVars

\* a stop() that lets the protocol task finish what it awaits
StopCancelWs_keeps_batch ==
    /\ stop_pc = "await_mc"
    /\ IF ws_pc \in {"crashed"}
       THEN stop_pc' = "raised" /\ UNCHANGED <<ws_pc, arb_inflight>>
       ELSE /\ stop_pc' = "await_ws"
            /\ ws_pc' = IF ws_pc = "done" THEN "done"
                        ELSE IF ws_pc = "inflight" THEN "inflight"
                        ELSE "cancelled"
            /\ UNCHANGED arb_inflight
    /\ UNCHANGED <<current_market, previous_slug, mm_running, ws_connected,
                   mc_pc, mc_old, mc_new>>
    /\ UNCHANGED <<orderbooks, subscribed_assets, ws_pending, ws_running, ws_conn>>
    /\ UNCHANGED <<cfgVars, trades, total_invested, total_guaranteed_return,
                   last_trade_time, opportunities_seen, orders_sent, now, pmVars>>
    /\ UNCHANGED componentVars

\* stop(): the protocol task is cancelled and awaited; what it awaited
\* (a batch in flight included) is dropped
StopCancelWs ==
    /\ stop_pc = "await_mc"
    /\ IF ws_pc \in {"crashed"}
       THEN stop_pc' = "raised" /\ UNCHANGED <<ws_pc, arb_inflight>>
       ELSE /\ stop_pc' = "await_ws"
            /\ ws_pc' = IF ws_pc = "done" THEN "done" ELSE "cancelled"
            /\ arb_inflight' = None
    /\ UNCHANGED <<current_market, previous_slug, mm_running, ws_connected,
                   mc_pc, mc_old, mc_new>>
    /\ UNCHANGED <<orderbooks, subscribed_assets, ws_pending, ws_running, ws_conn>>
    /\ UNCHANGED <<cfgVars, trades, total_invested, total_guaranteed_return,
                   last_trade_time, opportunities_seen, orders_sent, now, pmVars>>
    /\ UNCHANGED componentVars

\* stop(): ws.disconnect(), ws = None, _ws_connected = False
StopDisconnect ==
    /\ stop_pc = "await_ws"
    /\ ws_running' = FALSE
    /\ ws_conn' = "none"
    /\ ws_connected' = FALSE
    /\ stop_pc' = "stopped"
    /\ UNCHANGED <<current_market, previous_slug, mm_running, mc_pc, mc_old, mc_new>>
    /\ UNCHANGED <<orderbooks, subscribed_assets, ws_pending, ws_pc>>
    /\ UNCHANGED <<arbVars, pmVars>>
    /\ UNCHANGED componentVars

\* time passes
Tick ==
    /\ now < Epoch + MaxTicks
    /\ stop_pc \notin {"stopped", "raised"}
    /\ now' = now + 1
    /\ UNCHANGED <<cfgVars, trades, total_invested, total_guaranteed_return,
                   last_trade_time, opportunities_seen, arb_inflight, orders_sent>>
    /\ UNCHANGED <<wsVars, mmVars, pmVars>>
    /\ UNCHANGED componentVars

Next ==
    \/ WsConnectOk
    \/ WsConnectFail
    \/ WsWake
    \/ WsHandshake
    \/ ConnDrop
    \/ WsRecvClosed
    \/ RecvBook
    \/ BatchReturns
    \/ McWake
    \/ Discovery
    \/ McUnsubSent
    \/ McSubSent
    \/ StopBegin
    \/ StopCancelWs
    \/ StopDisconnect
    \/ Tick

Spec == Init /\ [][Next]_vars

(***************************************************************************)
(*        PositionManager on its own: specification SpecPM                 *)
(***************************************************************************)
sessionVars == <<wsVars, mmVars, arbVars, componentVars>>

WsIdle ==
    /\ orderbooks = EmptyDict
    /\ subscribed_assets = {}
    /\ ws_pending = <<>>
    /\ ws_running = FALSE
    /\ ws_conn = "none"
    /\ ws_pc = "idle"

MMIdle ==
    /\ current_market = None
    /\ previous_slug = ""
    /\ mm_running = FALSE
    /\ ws_connected = FALSE
    /\ mc_pc = "idle"
    /\ mc_old = None
    /\ mc_new = None
    /\ stop_pc = "idle"

OpenCall ==
    /\ trades_opened < MaxOpened
    /\ UNCHANGED sessionVars
    /\ \E side \in Sides, entry_price \in EntryPrices,
          pos_id \in PosIds \ DOMAIN positions :
           open_position(side, entry_price, 1, pos_id)

CloseCall ==
    /\ UNCHANGED sessionVars
    /\ \E position_id \in PosIds, realized_pnl \in PnLs :
           close_position(position_id, realized_pnl)

ClearCall == clear /\ UNCHANGED sessionVars

PMNext == OpenCall \/ CloseCall \/ ClearCall

PMSpecInit ==
    PMInit /\ WsIdle /\ MMIdle /\ ArbInit /\ ConfigDefault /\ ComponentsIdle

SpecPM == PMSpecInit /\ [][PMNext]_vars

(***************************************************************************)
(*   MarketWebSocket on its own (no hooks registered): specification       *)
(*   SpecBook.  The client is connected; recv() returns a frame, then      *)
(*   _handle_message handles it.  (In the session specification the two    *)
(*   are one step: there is no await between them.)                        *)
(***************************************************************************)
MaxLevels == 2           \* a frame of the first token carries at most this
                         \* many levels a side

BookTokens == {"u1", "d1"}
LevelPool == {OrderbookLevel(400, 1), OrderbookLevel(600, 2)}

RECURSIVE SeqsUpTo(_, _)
SeqsUpTo(S, n) ==
    IF n = 0 THEN {<<>>}
    ELSE LET shorter == SeqsUpTo(S, n - 1)
         IN  shorter \cup {Append(q, x) : q \in shorter, x \in S}

LevelLists == SeqsUpTo(LevelPool, MaxLevels)

ShortLists == SeqsUpTo(LevelPool, 1)

\* the frames the venue sends: books of u1 in any order of levels, short
\* books of d1, and the two events that carry no book
BookFrames ==
    {BookMsg("u1", bids, asks) : bids \in LevelLists, asks \in LevelLists}
    \cup {BookMsg("d1", bids, asks) : bids \in ShortLists, asks \in ShortLists}
    \cup {OtherMsg(e, t) : e \in {"price_change", "last_trade_price"},
                           t \in BookTokens}

\* _run_loop: recv() returns a frame
WsRecvFrame(data) ==
    /\ ws_pc = "recv"
    /\ ws_conn = "open"
    /\ ws_pending' = <<data>>
    /\ ws_pc' = "handling"
    /\ UNCHANGED <<orderbooks, subscribed_assets, ws_running, ws_conn>>
    /\ UNCHANGED <<mmVars, arbVars, pmVars>>
    /\ UNCHANGED componentVars

\* _run_loop: _handle_message(data), then back to recv()
WsHandleFrame ==
    /\ ws_pc = "handling"
    /\ orderbooks' = handle_message_cache(orderbooks, Head(ws_pending))
    /\ ws_pending' = <<>>
    /\ ws_pc' = "recv"
    /\ UNCHANGED <<subscribed_assets, ws_running, ws_conn>>
    /\ UNCHANGED <<mmVars, arbVars, pmVars>>
    /\ UNCHANGED componentVars

FrameArrives == \E data \in BookFrames : WsRecvFrame(data)

BookNext == FrameArrives \/ WsHandleFrame

BookInit ==
    /\ orderbooks = EmptyDict
    /\ subscribed_assets = BookTokens
    /\ ws_pending = <<>>
    /\ ws_running = TRUE
    /\ ws_conn = "open"
    /\ ws_pc = "recv"
    /\ PMIdle /\ MMIdle /\ ArbInit /\ ConfigDefault /\ ComponentsIdle

SpecBook == BookInit /\ [][BookNext]_vars

(***************************************************************************)
(*   MarketWebSocket.run() with a task that calls subscribe() and one that *)
(*   calls stop(): specification SpecClient.  The hooks are registered and *)
(*   return; no book callback is registered.  ws_pc is "connecting" while  *)
(*   connect() is awaited, "handshake" while the send of the initial       *)
(*   subscription is awaited, "recv" while recv() is awaited, "sleeping"   *)
(*   in the reconnect delay, "done" when run() has returned and "crashed"  *)
(*   when it has raised.                                                   *)
(***************************************************************************)
MaxConnects == 2         \* run() calls connect() at most this many times
MaxFrames == 1           \* frames handled on one connection
MaxSubscribes == 1       \* subscribe() is called at most this many times

ClientTokens == {"u1", "u2"}

\* the book frames the venue may send, whatever the client has requested
ClientFrames ==
    {BookMsg(t, <<>>, <<OrderbookLevel(400, 1)>>) : t \in ClientTokens}

\* the frame run() sends after connect()
init_msg_as_operation(assets) ==
    [key |-> "operation", value |-> "subscribe", assets_ids |-> assets]

init_msg(assets) == [key |-> "type", value |-> "MARKET", assets_ids |-> assets]

\* the frames subscribe() sends on an open connection
unsub_msg(assets) ==
    [key |-> "operation", value |-> "unsubscribe", assets_ids |-> assets]

sub_msg(assets) ==
    [key |-> "operation", value |-> "subscribe", assets_ids |-> assets]

\* run(): after _run_loop() the disconnect hook, then leave, sleep or leave
ClientLoopExit ==
    /\ hook_disconnects' = hook_disconnects + 1
    /\ ws_pc' = IF ~ws_running THEN "done"
                ELSE IF auto_reconnect THEN "sleeping"
                ELSE "done"

\* _run_loop(): the test at the head of the loop
ClientLoopHead ==
    IF ws_running /\ ws_conn = "open"
    THEN ws_pc' = "recv" /\ UNCHANGED hook_disconnects
    ELSE ClientLoopExit

clientRest == <<unitVars, pmVars, mmVars, arbVars, connectVars, fanVars, switchVars,
                ws_pending>>

\* connect() returns True; the initial subscription is handed to send()
ClientConnectOk ==
    /\ ws_pc = "connecting"
    /\ ws_conn' = "open"
    /\ ws_handled' = 0
    /\ IF subscribed_assets # {}
       THEN /\ ws_sent' = <<init_msg(subscribed_assets)>>
            /\ ws_pc' = "handshake"
            /\ UNCHANGED hook_disconnects
       ELSE /\ ws_sent' = <<>>
            /\ IF ws_running
               THEN ws_pc' = "recv" /\ UNCHANGED hook_disconnects
               ELSE ClientLoopExit
    /\ UNCHANGED <<orderbooks, subscribed_assets, ws_running, auto_reconnect,
                   ws_event, connects, stop_called, sub_pc, sub_call, sub_conn,
                   sub_ret, sub_calls>>
    /\ UNCHANGED clientRest

\* connect() returns False
ClientConnectFail ==
    /\ ws_pc = "connecting"
    /\ ws_pc' = IF auto_reconnect THEN "sleeping" ELSE "done"
    /\ UNCHANGED <<orderbooks, subscribed_assets, ws_running, ws_conn,
                   auto_reconnect, ws_sent, ws_handled, ws_event, connects,
                   hook_disconnects, stop_called, sub_pc, sub_call, sub_conn,
                   sub_ret, sub_calls>>
    /\ UNCHANGED clientRest

\* the reconnect delay is over: the test of the outer loop, then connect()
ClientWake ==
    /\ ws_pc = "sleeping"
    /\ IF ws_running
       THEN /\ connects < MaxConnects
            /\ ws_pc' = "connecting"
            /\ connects' = connects + 1
       ELSE /\ ws_pc' = "done"
            /\ UNCHANGED connects
    /\ UNCHANGED <<orderbooks, subscribed_assets, ws_running, ws_conn,
                   auto_reconnect, ws_sent, ws_handled, ws_event,
                   hook_disconnects, stop_called, sub_pc, sub_call, sub_conn,
                   sub_ret, sub_calls>>
    /\ UNCHANGED clientRest

\* the awaited send of the initial subscription returns, or raises
ClientHandshakeDone ==
    /\ ws_pc = "handshake"
    /\ IF ws_conn = "open"
       THEN ClientLoopHead
       ELSE ws_pc' = "crashed" /\ UNCHANGED hook_disconnects
    /\ UNCHANGED <<orderbooks, subscribed_assets, ws_running, ws_conn,
                   auto_reconnect, ws_sent, ws_handled, ws_event, connects,
                   stop_called, sub_pc, sub_call, sub_conn, sub_ret, sub_calls>>
    /\ UNCHANGED clientRest

\* what stays as it is in a step of the receive loop
loopFrame == <<subscribed_assets, ws_running, ws_conn, auto_reconnect, ws_sent,
               connects, stop_called, sub_pc, sub_call, sub_conn, sub_ret,
               sub_calls>>

\* recv() returns a frame that parses; _handle_message handles it
ClientRecvFrame(data) ==
    /\ ws_pc = "recv"
    /\ ws_conn = "open"
    /\ ws_handled < MaxFrames
    /\ orderbooks' = handle_message_cache(orderbooks, data)
    /\ ws_handled' = ws_handled + 1
    /\ ws_event' = "frame"
    /\ ClientLoopHead
    /\ UNCHANGED loopFrame
    /\ UNCHANGED clientRest

\* a receive timeout that leaves the loop
ClientRecvTimeout_breaks ==
    /\ ws_pc = "recv"
    /\ ws_conn = "open"
    /\ ws_event' = "timeout"
    /\ ClientLoopExit
    /\ UNCHANGED <<orderbooks, ws_handled>>
    /\ UNCHANGED loopFrame
    /\ UNCHANGED clientRest

\* wait_for(recv()) times out: logged, and the loop goes on
ClientRecvTimeout ==
    /\ ws_pc = "recv"
    /\ ws_conn = "open"
    /\ ws_event' = "timeout"
    /\ ClientLoopHead
    /\ UNCHANGED <<orderbooks, ws_handled>>
    /\ UNCHANGED loopFrame
    /\ UNCHANGED clientRest

\* an unparsable frame that leaves the loop
ClientRecvGarbled_breaks ==
    /\ ws_pc = "recv"
    /\ ws_conn = "open"
    /\ ws_event' = "garbled"
    /\ ClientLoopExit
    /\ UNCHANGED <<orderbooks, ws_handled>>
    /\ UNCHANGED loopFrame
    /\ UNCHANGED clientRest

\* recv() returns a frame json.loads rejects: logged, and the loop goes on
ClientRecvGarbled ==
    /\ ws_pc = "recv"
    /\ ws_conn = "open"
    /\ ws_event' = "garbled"
    /\ ClientLoopHead
    /\ UNCHANGED <<orderbooks, ws_handled>>
    /\ UNCHANGED loopFrame
    /\ UNCHANGED clientRest

\* recv() raises ConnectionClosed: break
ClientRecvClosed ==
    /\ ws_pc = "recv"
    /\ ws_conn = "closed"
    /\ ws_event' = "closed"
    /\ ClientLoopExit
    /\ UNCHANGED <<orderbooks, ws_handled>>
    /\ UNCHANGED loopFrame
    /\ UNCHANGED clientRest

\* the peer or the network closes the connection
ClientConnDrop ==
    /\ ws_conn = "open"
    /\ ws_pc \in {"handshake", "recv"}
    /\ ws_conn' = "closed"
    /\ UNCHANGED <<orderbooks, subscribed_assets, ws_running, ws_pc,
                   auto_reconnect, ws_sent, ws_handled, ws_event, connects,
                   hook_disconnects, stop_called, sub_pc, sub_call, sub_conn,
                   sub_ret, sub_calls>>
    /\ UNCHANGED clientRest

\* MarketWebSocket.stop()
ClientStop ==
    /\ ~stop_called
    /\ ws_pc \notin {"done", "crashed"}
    /\ ws_running' = FALSE
    /\ stop_called' = TRUE
    /\ UNCHANGED <<orderbooks, subscribed_assets, ws_conn, ws_pc,
                   auto_reconnect, ws_sent, ws_handled, ws_event, connects,
                   hook_disconnects, sub_pc, sub_call, sub_conn, sub_ret,
                   sub_calls>>
    /\ UNCHANGED clientRest

\* subscribe(): the requested set after lines 236-239
requested_after(current, asset_ids, replace) ==
    IF replace THEN asset_ids ELSE current \cup asset_ids

\* what stays as it is in a step of the task that calls subscribe()
subFrame == <<ws_running, ws_conn, ws_pc, auto_reconnect, ws_handled, ws_event,
              connects, hook_disconnects, stop_called>>

\* subscribe(asset_ids, replace) is called
ClientSubscribe(asset_ids, replace) ==
    /\ sub_pc = "idle"
    /\ sub_calls < MaxSubscribes
    /\ sub_calls' = sub_calls + 1
    /\ sub_call' = [ids |-> asset_ids, replace |-> replace,
                    connected |-> is_connected, old |-> subscribed_assets]
    /\ IF asset_ids = {}
       THEN /\ sub_ret' = "false"
            /\ UNCHANGED <<orderbooks, subscribed_assets, ws_sent, sub_pc,
                           sub_conn>>
       ELSE LET old_assets == IF replace THEN subscribed_assets ELSE {}
            IN  /\ subscribed_assets' =
                      requested_after(subscribed_assets, asset_ids, replace)
                /\ orderbooks' = IF replace THEN EmptyDict ELSE orderbooks
                /\ IF ~is_connected
                   THEN /\ sub_ret' = "true"
                        /\ UNCHANGED <<ws_sent, sub_pc, sub_conn>>
                   ELSE /\ sub_ret' = "pending"
                        /\ sub_conn' = connects
                        /\ IF old_assets # {}
                           THEN /\ ws_sent' = Append(ws_sent, unsub_msg(old_assets))
                                /\ sub_pc' = "send_unsub"
                           ELSE /\ ws_sent' = Append(ws_sent, sub_msg(asset_ids))
                                /\ sub_pc' = "send_sub"
    /\ UNCHANGED subFrame
    /\ UNCHANGED clientRest

\* the awaited send of the unsubscribe frame returns (the subscribe frame is
\* handed to send()), or raises (subscribe() returns False)
ClientUnsubSent ==
    /\ sub_pc = "send_unsub"
    /\ IF ws_conn = "open" /\ connects = sub_conn
       THEN /\ ws_sent' = Append(ws_sent, sub_msg(sub_call.ids))
            /\ sub_pc' = "send_sub"
            /\ UNCHANGED sub_ret
       ELSE /\ sub_ret' = "false"
            /\ sub_pc' = "idle"
            /\ UNCHANGED ws_sent
    /\ UNCHANGED <<orderbooks, subscribed_assets, sub_call, sub_conn, sub_calls>>
    /\ UNCHANGED subFrame
    /\ UNCHANGED clientRest

\* the awaited send of the subscribe frame returns, or raises
ClientSubSent ==
    /\ sub_pc = "send_sub"
    /\ sub_ret' = IF ws_conn = "open" /\ connects = sub_conn THEN "true" ELSE "false"
    /\ sub_pc' = "idle"
    /\ UNCHANGED <<orderbooks, subscribed_assets, ws_sent, sub_call, sub_conn,
                   sub_calls>>
    /\ UNCHANGED subFrame
    /\ UNCHANGED clientRest

\* the id lists subscribe() is called with
SubscribeLists == {{}, {"u1"}, {"u2"}}

FrameArrivesAtClient == \E data \in ClientFrames : ClientRecvFrame(data)

SubscribeCalled ==
    \E asset_ids \in SubscribeLists, replace \in BOOLEAN :
        ClientSubscribe(asset_ids, replace)

ClientNext ==
    \/ ClientConnectOk
    \/ ClientConnectFail
    \/ ClientWake
    \/ ClientHandshakeDone
    \/ FrameArrivesAtClient
    \/ ClientRecvTimeout
    \/ ClientRecvGarbled
    \/ ClientRecvClosed
    \/ ClientConnDrop
    \/ ClientStop
    \/ SubscribeCalled
    \/ ClientUnsubSent
    \/ ClientSubSent

\* run(auto_reconnect) has been called and awaits its first connect()
ClientInit ==
    /\ orderbooks = EmptyDict
    /\ subscribed_assets \in {{}, {"u1"}}
    /\ ws_pending = <<>>
    /\ ws_running = TRUE
    /\ ws_conn = "none"
    /\ ws_pc = "connecting"
    /\ auto_reconnect \in BOOLEAN
    /\ ws_sent = <<>>
    /\ ws_handled = 0
    /\ ws_event = "none"
    /\ connects = 1
    /\ hook_disconnects = 0
    /\ stop_called = FALSE
    /\ sub_pc = "idle"
    /\ sub_call = None
    /\ sub_conn = 0
    /\ sub_ret = "none"
    /\ sub_calls = 0
    /\ PMIdle /\ MMIdle /\ ArbInit /\ ConfigDefault
    /\ ConnectIdle /\ FanIdle /\ SwitchIdle /\ UnitsIdle

SpecClient == ClientInit /\ [][ClientNext]_vars

(***************************************************************************)
(*   MarketWebSocket.connect() on its own: specification SpecConnect.      *)
(*   Each call finds a connect hook and an error hook that is absent       *)
(*   ("none"), returns or raises, and the websockets library present or    *)
(*   not.  conn_ret is "pending" while _ws_connect is awaited, then        *)
(*   "true", "false" or "raised"; connects counts the calls.               *)
(***************************************************************************)
HookKinds == {"none", "returns", "raises"}

\* the except branch of connect(): the error hook, then return False
connect_failed(on_error) == IF on_error = "raises" THEN "raised" ELSE "false"

\* the number of hook invocations a hook of this kind adds
hook_invoked(kind) == IF kind = "none" THEN 0 ELSE 1

connectRest == <<unitVars, pmVars, mmVars, arbVars, fanVars, switchVars, orderbooks,
                 subscribed_assets, ws_pending, ws_running, ws_pc,
                 auto_reconnect, ws_sent, ws_handled, ws_event,
                 hook_disconnects, stop_called, sub_pc, sub_call, sub_conn,
                 sub_ret, sub_calls>>

\* connect() is called
ConnectCall(on_connect, on_error, library) ==
    /\ conn_ret # "pending"
    /\ connects < MaxConnects
    /\ connects' = connects + 1
    /\ conn_call' = [on_connect |-> on_connect, on_error |-> on_error,
                     library |-> library, established |-> FALSE]
    /\ IF library
       THEN /\ conn_ret' = "pending"
            /\ UNCHANGED hook_errors
       ELSE /\ conn_ret' = connect_failed(on_error)
            /\ hook_errors' = hook_errors + hook_invoked(on_error)
    /\ UNCHANGED <<ws_conn, hook_connects>>
    /\ UNCHANGED connectRest

\* the awaited _ws_connect raises
ConnectRefused ==
    /\ conn_ret = "pending"
    /\ conn_ret' = connect_failed(conn_call.on_error)
    /\ hook_errors' = hook_errors + hook_invoked(conn_call.on_error)
    /\ UNCHANGED <<ws_conn, conn_call, connects, hook_connects>>
    /\ UNCHANGED connectRest

\* the awaited _ws_connect returns a connection: the connect hook, return True
ConnectEstablished ==
    /\ conn_ret = "pending"
    /\ ws_conn' = "open"
    /\ conn_call' = [conn_call EXCEPT !.established = TRUE]
    /\ hook_connects' = hook_connects + hook_invoked(conn_call.on_connect)
    /\ IF conn_call.on_connect = "raises"
       THEN /\ conn_ret' = connect_failed(conn_call.on_error)
            /\ hook_errors' = hook_errors + hook_invoked(conn_call.on_error)
       ELSE /\ conn_ret' = "true"
            /\ UNCHANGED hook_errors
    /\ UNCHANGED connects
    /\ UNCHANGED connectRest

ConnectCalled ==
    \E on_connect \in HookKinds, on_error \in HookKinds, library \in BOOLEAN :
        ConnectCall(on_connect, on_error, library)

ConnectNext ==
    \/ ConnectCalled
    \/ ConnectRefused
    \/ ConnectEstablished

ConnectInit ==
    PMIdle /\ WsIdle /\ MMIdle /\ ArbInit /\ ConfigDefault /\ ComponentsIdle

SpecConnect == ConnectInit /\ [][ConnectNext]_vars

(***************************************************************************)
(*   One frame after another through _run_loop, _handle_message and the    *)
(*   book hook MarketManager registers (handle_book), which fans a         *)
(*   snapshot out to the observers of on_book_update: specification        *)
(*   SpecFanout.  An observer returns, raises, or returns a coroutine      *)
(*   that handle_book awaits (an order submission) and that then returns   *)
(*   or raises.  fan_pc is "recv" while recv() is awaited, "item" at the   *)
(*   head of the loop over the items of a frame, "observers" at the head   *)
(*   of the loop over the observers and "awaiting" while a coroutine of    *)
(*   an observer is awaited.  fan_log records, in order, the items         *)
(*   received, the cache writes, the observer invocations and the          *)
(*   completions of awaited observers.                                     *)
(***************************************************************************)
MaxItems == 3            \* items received in all
MaxBatch == 2            \* items of one array frame
MaxObservers == 2        \* registered book observers

ObserverKinds == {"returns", "raises", "awaits"}

FanMsgs ==
    {BookMsg("u1", <<>>, <<OrderbookLevel(400, 1)>>),
     BookMsg("u1", <<>>, <<OrderbookLevel(600, 1)>>),
     BookMsg("u2", <<>>, <<OrderbookLevel(400, 1)>>)}

\* the frames recv() may return: arrays of book items (a frame that is a
\* single object is handled as an array of one)
FanFrames == UNION {[1..n -> FanMsgs] : n \in 1..MaxBatch}

fan_event(kind, seq, obs, book) ==
    [kind |-> kind, seq |-> seq, obs |-> obs, book |-> book]

fanRest == <<unitVars, pmVars, mmVars, arbVars, clientVars, connectVars, switchVars,
             subscribed_assets, ws_running, ws_conn, ws_pc>>

\* recv() returns a frame and json.loads parses it
FanRecvFrame(data) ==
    /\ fan_pc = "recv"
    /\ fan_seq + Len(data) <= MaxItems
    /\ ws_pending' = data
    /\ fan_seq' = fan_seq + Len(data)
    /\ fan_log' = fan_log \o
           [i \in 1..Len(data) |->
               fan_event("recv", fan_seq + i, 0, from_message(data[i]))]
    /\ fan_pc' = "item"
    /\ UNCHANGED <<orderbooks, observers, fan_item, fan_next>>
    /\ UNCHANGED fanRest

\* the loop over the items of a frame that takes the last item first
FanHandleItem_last_first ==
    /\ fan_pc = "item"
    /\ IF ws_pending = <<>>
       THEN /\ fan_pc' = "recv"
            /\ UNCHANGED <<orderbooks, ws_pending, fan_item, fan_next, fan_log>>
       ELSE LET n == Len(ws_pending)
                seq == fan_seq
                snapshot == from_message(ws_pending[n])
            IN  /\ ws_pending' = SubSeq(ws_pending, 1, n - 1)
                /\ orderbooks' = handle_message_cache(orderbooks, ws_pending[n])
                /\ fan_log' =
                      Append(fan_log, fan_event("cache", seq, 0, snapshot))
                /\ fan_item' = [seq |-> seq, book |-> snapshot]
                /\ fan_next' = 1
                /\ fan_pc' = "observers"
    /\ UNCHANGED <<observers, fan_seq>>
    /\ UNCHANGED fanRest

\* _run_loop: for item in data; _handle_message: the snapshot is built and
\* stored in the cache, then the book hook is entered
FanHandleItem ==
    /\ fan_pc = "item"
    /\ IF ws_pending = <<>>
       THEN /\ fan_pc' = "recv"
            /\ UNCHANGED <<orderbooks, ws_pending, fan_item, fan_next, fan_log>>
       ELSE LET seq == fan_seq - Len(ws_pending) + 1
                snapshot == from_message(Head(ws_pending))
            IN  /\ ws_pending' = Tail(ws_pending)
                /\ orderbooks' = handle_message_cache(orderbooks, Head(ws_pending))
                /\ fan_log' =
                      Append(fan_log, fan_event("cache", seq, 0, snapshot))
                /\ fan_item' = [seq |-> seq, book |-> snapshot]
                /\ fan_next' = 1
                /\ fan_pc' = "observers"
    /\ UNCHANGED <<observers, fan_seq>>
    /\ UNCHANGED fanRest

\* a fan-out that an exception of an observer leaves
FanInvoke_stops_at_raise ==
    /\ fan_pc = "observers"
    /\ IF fan_next > Len(observers)
       THEN /\ fan_pc' = "item"
            /\ fan_item' = None
            /\ UNCHANGED <<fan_next, fan_log>>
       ELSE /\ fan_log' = Append(fan_log,
                   fan_event("call", fan_item.seq, fan_next, fan_item.book))
            /\ fan_pc' = IF observers[fan_next] = "awaits"
                         THEN "awaiting" ELSE "observers"
            /\ fan_next' = IF observers[fan_next] = "awaits" THEN fan_next
                           ELSE IF observers[fan_next] = "raises"
                           THEN Len(observers) + 1
                           ELSE fan_next + 1
            /\ UNCHANGED fan_item
    /\ UNCHANGED <<orderbooks, ws_pending, observers, fan_seq>>
    /\ UNCHANGED fanRest

\* handle_book: the next observer is called with the snapshot; what it raises
\* is swallowed; a coroutine it returns is awaited
FanInvoke ==
    /\ fan_pc = "observers"
    /\ IF fan_next > Len(observers)
       THEN /\ fan_pc' = "item"
            /\ fan_item' = None
            /\ UNCHANGED <<fan_next, fan_log>>
       ELSE /\ fan_log' = Append(fan_log,
                   fan_event("call", fan_item.seq, fan_next, fan_item.book))
            /\ fan_pc' = IF observers[fan_next] = "awaits"
                         THEN "awaiting" ELSE "observers"
            /\ fan_next' = IF observers[fan_next] = "awaits" THEN fan_next
                           ELSE fan_next + 1
            /\ UNCHANGED fan_item
    /\ UNCHANGED <<orderbooks, ws_pending, observers, fan_seq>>
    /\ UNCHANGED fanRest

\* the awaited coroutine of an observer returns or raises
FanAwaitDone ==
    /\ fan_pc = "awaiting"
    /\ fan_log' = Append(fan_log,
           fan_event("done", fan_item.seq, fan_next, fan_item.book))
    /\ fan_next' = fan_next + 1
    /\ fan_pc' = "observers"
    /\ UNCHANGED <<orderbooks, ws_pending, observers, fan_item, fan_seq>>
    /\ UNCHANGED fanRest

FanFrameArrives == \E data \in FanFrames : FanRecvFrame(data)

FanNext ==
    \/ FanFrameArrives
    \/ FanHandleItem
    \/ FanInvoke
    \/ FanAwaitDone

\* the client is connected, the observers are registered, recv() is awaited
FanInit ==
    /\ orderbooks = EmptyDict
    /\ subscribed_assets = {"u1", "u2"}
    /\ ws_pending = <<>>
    /\ ws_running = TRUE
    /\ ws_conn = "open"
    /\ ws_pc = "recv"
    /\ observers \in UNION {[1..n -> ObserverKinds] : n \in 0..MaxObservers}
    /\ fan_pc = "recv"
    /\ fan_item = None
    /\ fan_next = 0
    /\ fan_seq = 0
    /\ fan_log = <<>>
    /\ PMIdle /\ MMIdle /\ ArbInit /\ ConfigDefault
    /\ ClientIdle /\ ConnectIdle /\ SwitchIdle /\ UnitsIdle

SpecFanout == FanInit /\ [][FanNext]_vars

(***************************************************************************)
(*   MarketManager._should_switch_market on its own: specification         *)
(*   SpecSwitch.  The current market (or None) and the discovered market   *)
(*   are drawn from markets over two token pairs, with a slug that ends    *)
(*   in a timestamp, in 0 or in no digits, and an end date that parses or  *)
(*   does not.                                                             *)
(***************************************************************************)
SlugTimes == {NoTimestamp, 0, 100, 200}

EndTimes == {NoTimestamp, 100, 200}

\* the slug whose last segment slug_timestamp() reads as slug_ts
SlugOf(slug_ts) ==
    IF slug_ts = NoTimestamp THEN "eth-updown-15m-next"
    ELSE IF slug_ts = 0 THEN "eth-updown-15m-0"
    ELSE IF slug_ts = 100 THEN "eth-updown-15m-100"
    ELSE "eth-updown-15m-200"

SwitchMarkets ==
    {MarketInfo(SlugOf(s), pair[1], pair[2], s, e) :
        pair \in {<<"u1", "d1">>, <<"u2", "d2">>}, s \in SlugTimes, e \in EndTimes}

switchRest == <<unitVars, pmVars, wsVars, mmVars, arbVars, clientVars, connectVars,
                fanVars>>

\* _market_check_loop asks whether to switch
SwitchCheck ==
    /\ sw_ret = "none"
    /\ sw_ret' = IF should_switch_market(sw_old, sw_new) THEN "true" ELSE "false"
    /\ UNCHANGED <<sw_old, sw_new>>
    /\ UNCHANGED switchRest

SwitchNext == SwitchCheck

SwitchInit ==
    /\ sw_old \in SwitchMarkets \cup {None}
    /\ sw_new \in SwitchMarkets
    /\ sw_ret = "none"
    /\ PMIdle /\ WsIdle /\ MMIdle /\ ArbInit /\ ConfigDefault
    /\ ClientIdle /\ ConnectIdle /\ FanIdle /\ UnitsIdle

SpecSwitch == SwitchInit /\ [][SwitchNext]_vars

(***************************************************************************)
(*   The market-check loop beside refresh_market(): specification          *)
(*   SpecMarket.  start() has discovered and subscribed a first market,    *)
(*   the loop task sleeps, and callers run refresh_market() on the same    *)
(*   event loop.  Each discovery runs in a worker thread: the caller       *)
(*   yields while it is out, and again while subscribe() sends.            *)
(***************************************************************************)
MaxChecks == 2           \* iterations of the market-check loop
MaxRefreshes == 1        \* calls of refresh_market()
MaxWatchers == 2         \* registered market-change observers

coreVars == <<pmVars, wsVars, mmVars, arbVars, clientVars, connectVars,
              fanVars, switchVars>>

CoreIdle ==
    /\ PMIdle /\ WsIdle /\ MMIdle /\ ArbInit /\ ConfigDefault
    /\ ClientIdle /\ ConnectIdle /\ FanIdle /\ SwitchIdle

\* what discovery may return here: two token pairs, under a slug that ends
\* in a timestamp or in no digits; every end date parses, so every market
\* has a sort key
MarketChoices ==
    {m \in SwitchMarkets :
        IF m.slug_ts = NoTimestamp THEN m.end_ts # NoTimestamp
        ELSE m.slug_ts # 0 /\ m.end_ts = 200}

\* observers that return and observers that raise, in registration order
WatcherLists ==
    UNION {[1..n -> {"returns", "raises"}] : n \in 0..MaxWatchers}

\* _update_current_market
update_current_market(market) ==
    /\ mk_previous_slug' = market.slug
    /\ mk_current' = market

SubscribeEvent(market) ==
    [op |-> "subscribe", tokens |-> TokenSet(market), replace |-> TRUE]

UpdateEvent(market) == [op |-> "update", slug |-> market.slug]

\* a market-change loop that does not compare the slugs
notify_market_change_always(old_market, new_market) ==
    [i \in 1..Len(mk_observers) |->
        [op |-> "changed", observer |-> i, old |-> old_market.slug,
         new |-> new_market.slug, outcome |-> mk_observers[i]]]

\* the loop over _on_market_change_callbacks, entered when old_slug is set
\* and differs from the new slug; an observer that raises is passed over
notify_market_change(old_market, new_market) ==
    IF old_market # None /\ old_market.slug # new_market.slug
    THEN [i \in 1..Len(mk_observers) |->
            [op |-> "changed", observer |-> i, old |-> old_market.slug,
             new |-> new_market.slug, outcome |-> mk_observers[i]]]
    ELSE <<>>

marketOthers == <<coreVars, trackerVars, vaultVars, requestVars, extraVars>>

loopRest == <<mk_observers, rf_pc, rf_old, rf_new, rf_calls>>

refreshRest == <<mk_observers, lp_pc, lp_old, lp_new, lp_trace, lp_checks>>

\* _market_check_loop: the sleep is over, old_market is read and the
\* discovery starts
LoopWake ==
    /\ lp_pc = "sleep"
    /\ lp_checks < MaxChecks
    /\ lp_old' = mk_current
    /\ lp_pc' = "discover"
    /\ lp_trace' = <<>>
    /\ lp_checks' = lp_checks + 1
    /\ UNCHANGED <<mk_current, mk_previous_slug, mk_subscribed, lp_new>>
    /\ UNCHANGED <<loopRest, marketOthers>>

\* _market_check_loop: the discovery returned market (or None)
LoopDiscovered(market) ==
    /\ lp_pc = "discover"
    /\ IF market = None
       THEN /\ lp_pc' = "sleep"
            /\ lp_old' = None
            /\ UNCHANGED <<mk_current, mk_previous_slug, mk_subscribed,
                           lp_new, lp_trace>>
       ELSE IF TokenSet(market) = TokenSet(lp_old)
       THEN /\ update_current_market(market)
            /\ lp_trace' = Append(lp_trace, UpdateEvent(market))
            /\ lp_pc' = "sleep"
            /\ lp_old' = None
            /\ UNCHANGED <<mk_subscribed, lp_new>>
       ELSE IF ~should_switch_market(lp_old, market)
       THEN /\ lp_pc' = "sleep"
            /\ lp_old' = None
            /\ UNCHANGED <<mk_current, mk_previous_slug, mk_subscribed,
                           lp_new, lp_trace>>
       ELSE \* await self.ws.subscribe(list(new_tokens), replace=True)
            /\ mk_subscribed' = TokenSet(market)
            /\ lp_trace' = Append(lp_trace, SubscribeEvent(market))
            /\ lp_new' = market
            /\ lp_pc' = "subscribe"
            /\ UNCHANGED <<mk_current, mk_previous_slug, lp_old>>
    /\ UNCHANGED lp_checks
    /\ UNCHANGED <<loopRest, marketOthers>>

LoopDiscovery == \E market \in MarketChoices \cup {None} : LoopDiscovered(market)

\* _market_check_loop: subscribe() returned; the market is updated and the
\* observers are told
LoopSubscribed ==
    /\ lp_pc = "subscribe"
    /\ update_current_market(lp_new)
    /\ lp_trace' = Append(lp_trace, UpdateEvent(lp_new))
                      \o notify_market_change(lp_old, lp_new)
    /\ lp_pc' = "sleep"
    /\ lp_old' = None
    /\ lp_new' = None
    /\ UNCHANGED <<mk_subscribed, lp_checks>>
    /\ UNCHANGED <<loopRest, marketOthers>>

\* refresh_market(): old_market is read and the discovery starts
RefreshCall ==
    /\ rf_pc = "idle"
    /\ rf_calls < MaxRefreshes
    /\ rf_old' = mk_current
    /\ rf_pc' = "discover"
    /\ rf_calls' = rf_calls + 1
    /\ UNCHANGED <<mk_current, mk_previous_slug, mk_subscribed, rf_new>>
    /\ UNCHANGED <<refreshRest, marketOthers>>

\* refresh_market(): the discovery returned market (or None)
RefreshDiscovered(market) ==
    /\ rf_pc = "discover"
    /\ IF market = None
       THEN /\ rf_pc' = "idle"
            /\ rf_old' = None
            /\ UNCHANGED <<mk_current, mk_previous_slug, mk_subscribed, rf_new>>
       ELSE IF TokenSet(market) = TokenSet(rf_old)
       THEN /\ update_current_market(market)
            /\ rf_pc' = "idle"
            /\ rf_old' = None
            /\ UNCHANGED <<mk_subscribed, rf_new>>
       ELSE IF ~should_switch_market(rf_old, market)
       THEN /\ rf_pc' = "idle"
            /\ rf_old' = None
            /\ UNCHANGED <<mk_current, mk_previous_slug, mk_subscribed, rf_new>>
       ELSE /\ mk_subscribed' = TokenSet(market)
            /\ rf_new' = market
            /\ rf_pc' = "subscribe"
            /\ UNCHANGED <<mk_current, mk_previous_slug, rf_old>>
    /\ UNCHANGED rf_calls
    /\ UNCHANGED <<refreshRest, marketOthers>>

RefreshDiscovery ==
    \E market \in MarketChoices \cup {None} : RefreshDiscovered(market)

\* refresh_market(): subscribe() returned and the market is updated
RefreshSubscribed ==
    /\ rf_pc = "subscribe"
    /\ update_current_market(rf_new)
    /\ rf_pc' = "idle"
    /\ rf_old' = None
    /\ rf_new' = None
    /\ UNCHANGED <<mk_subscribed, rf_calls>>
    /\ UNCHANGED <<refreshRest, marketOthers>>

MarketNext ==
    \/ LoopWake
    \/ LoopDiscovery
    \/ LoopSubscribed
    \/ RefreshCall
    \/ RefreshDiscovery
    \/ RefreshSubscribed

MarketInit ==
    /\ mk_current \in MarketChoices
    /\ mk_previous_slug = mk_current.slug
    /\ mk_subscribed = TokenSet(mk_current)
    /\ mk_observers \in WatcherLists
    /\ lp_pc = "sleep"
    /\ lp_old = None
    /\ lp_new = None
    /\ lp_trace = <<>>
    /\ lp_checks = 0
    /\ rf_pc = "idle"
    /\ rf_old = None
    /\ rf_new = None
    /\ rf_calls = 0
    /\ CoreIdle /\ TrackerIdle /\ VaultIdle /\ RequestIdle /\ ExtraIdle

SpecMarket == MarketInit /\ [][MarketNext]_vars

(***************************************************************************)
(*   PositionManager.check_all_exits on its own: specification SpecExits.  *)
(*   The manager holds at most one position a side, each with the          *)
(*   thresholds it was opened under; prices and deltas are in thousandths. *)
(***************************************************************************)
ExitSides == {"up", "down"}

ExitPrices == {0, 350, 450, 500, 600}

Deltas == {50, 100}

\* Position, with the thresholds open_position copies into it
OpenPosition(id, side, entry_price, size, take_profit_delta, stop_loss_delta) ==
    [id |-> id, side |-> side, entry_price |-> entry_price, size |-> size,
     take_profit_delta |-> take_profit_delta,
     stop_loss_delta |-> stop_loss_delta]

take_profit_price(position) == position.entry_price + position.take_profit_delta

stop_loss_price(position) == position.entry_price - position.stop_loss_delta

get_pnl(position, current_price) ==
    (current_price - position.entry_price) * position.size

check_take_profit(position, current_price) ==
    current_price >= take_profit_price(position)

check_stop_loss(position, current_price) ==
    current_price <= stop_loss_price(position)

\* the exit_type of a position that has crossed neither threshold (None)
NoExit == "none"

\* check_exit(position_id, current_price): (exit_type, pnl)
check_exit(position_id, current_price) ==
    IF position_id \notin DOMAIN positions
    THEN <<NoExit, 0>>
    ELSE LET position == positions[position_id]
             pnl == get_pnl(position, current_price)
         IN  IF check_take_profit(position, current_price)
             THEN <<"take_profit", pnl>>
             ELSE IF check_stop_loss(position, current_price)
             THEN <<"stop_loss", pnl>>
             ELSE <<NoExit, pnl>>

\* prices.get(position.side, 0)
price_of(prices, side) == IF side \in DOMAIN prices THEN prices[side] ELSE 0

\* a check_all_exits that takes every price as it comes
check_all_exits_any_price(prices) ==
    {<<positions[id], check_exit(id, price_of(prices, positions[id].side))[1],
       check_exit(id, price_of(prices, positions[id].side))[2]>> :
        id \in {i \in DOMAIN positions :
                  /\ positions[i].side \in DOMAIN prices
                  /\ check_exit(i, prices[positions[i].side])[1] # NoExit}}

\* check_all_exits(prices): the tuples it returns (in the order of opening)
check_all_exits(prices) ==
    {<<positions[id], check_exit(id, price_of(prices, positions[id].side))[1],
       check_exit(id, price_of(prices, positions[id].side))[2]>> :
        id \in {i \in DOMAIN positions :
                  /\ price_of(prices, positions[i].side) > 0
                  /\ check_exit(i, price_of(prices, positions[i].side))[1] # NoExit}}

\* the price dictionaries a caller may pass
PriceDicts == UNION {[sides -> ExitPrices] : sides \in SUBSET ExitSides}

ExitsCheck ==
    /\ \E prices \in PriceDicts :
          /\ pm_call' = [op |-> "check_all_exits", prices |-> prices]
          /\ pm_ret' = check_all_exits(prices)
    /\ UNCHANGED pmState
    /\ UNCHANGED sessionVars

ExitsNext == ExitsCheck

\* the positions a manager may hold: none or one a side
HeldPositions ==
    UNION {
      {[id \in ids |->
          OpenPosition(id, IF id = "p1" THEN "up" ELSE "down",
                       choice[id][1], choice[id][2], choice[id][3],
                       choice[id][4])] :
         choice \in [ids -> EntryPrices \X {1, 2} \X Deltas \X Deltas]} :
      ids \in SUBSET {"p1", "p2"}}

ExitsInit ==
    /\ max_positions = MaxCapacity
    /\ positions \in HeldPositions
    /\ positions_by_side =
         [side \in {positions[id].side : id \in DOMAIN positions} |->
             CHOOSE id \in DOMAIN positions : positions[id].side = side]
    /\ trades_opened = Cardinality(DOMAIN positions)
    /\ trades_closed = 0
    /\ total_pnl = 0
    /\ winning_trades = 0
    /\ losing_trades = 0
    /\ pm_call = [op |-> "init"]
    /\ pm_ret = None
    /\ WsIdle /\ MMIdle /\ ArbInit /\ ConfigDefault /\ ComponentsIdle

SpecExits == ExitsInit /\ [][ExitsNext]_vars

(***************************************************************************)
(*   PriceTracker on its own: specification SpecTracker.  Prices and the   *)
(*   drop threshold are in thousandths, times in seconds.                  *)
(***************************************************************************)
max_history == 2         \* a tracker built with max_history=2
lookback_seconds == 10
drop_threshold == 300

TrackedSides == {"up", "down"}

\* detect_flash_crash() without a side: `if side` is false for "" as for None
NoSide == ""

Clock == {0, 10, 20}

TrackerPrices == {0, 500, 700, 800}

PricePoint(timestamp, price, side) ==
    [timestamp |-> timestamp, price |-> price, side |-> side]

FlashCrashEvent(side, old_price, new_price, drop, timestamp) ==
    [side |-> side, old_price |-> old_price, new_price |-> new_price,
     drop |-> drop, timestamp |-> timestamp]

\* deque(maxlen=max_history).append
deque_append(history, point) ==
    IF Len(history) < max_history THEN Append(history, point)
    ELSE Append(Tail(history), point)

\* record(side, price, timestamp): the history it leaves
record(side, price, timestamp) ==
    IF side \notin DOMAIN tk_history THEN tk_history
    ELSE IF price <= 0 THEN tk_history
    ELSE [tk_history EXCEPT
            ![side] = deque_append(@, PricePoint(timestamp, price, side))]

\* the index of the first point of history inside the lookback window, from
\* index i on (0: none)
RECURSIVE first_in_window(_, _)
first_in_window(history, i) ==
    IF i > Len(history) THEN 0
    ELSE IF tk_now - history[i].timestamp <= lookback_seconds THEN i
    ELSE first_in_window(history, i + 1)

\* a detector that compares against the oldest retained point
crash_on_side_from_oldest(s) ==
    IF s \notin DOMAIN tk_history THEN None
    ELSE LET history == tk_history[s] IN
         IF Len(history) < 2 THEN None
         ELSE LET current_price == history[Len(history)].price
                  drop == history[1].price - current_price
              IN  IF drop >= drop_threshold
                  THEN FlashCrashEvent(s, history[1].price, current_price,
                                       drop, tk_now)
                  ELSE None

\* the body of the loop of detect_flash_crash for one side s
crash_on_side(s) ==
    IF s \notin DOMAIN tk_history THEN None
    ELSE LET history == tk_history[s] IN
         IF Len(history) < 2 THEN None
         ELSE LET current_price == history[Len(history)].price
                  first == first_in_window(history, 1)
              IN  IF first = 0 THEN None
                  ELSE LET old_price == history[first].price
                           drop == old_price - current_price
                       IN  IF drop >= drop_threshold
                           THEN FlashCrashEvent(s, old_price, current_price,
                                                drop, tk_now)
                           ELSE None

\* detect_flash_crash(side)
detect_flash_crash(side) ==
    IF side # NoSide THEN crash_on_side(side)
    ELSE IF crash_on_side("up") # None THEN crash_on_side("up")
    ELSE crash_on_side("down")

trackerRest == <<coreVars, marketVars, vaultVars, requestVars, extraVars>>

\* record(side, price) or record(side, price, timestamp)
TrackerRecord ==
    /\ \E side \in TrackedSides \cup {"flat"}, price \in TrackerPrices,
          timestamp \in {tk_now, 0} :
          /\ tk_history' = record(side, price, timestamp)
          /\ tk_call' = [op |-> "record", side |-> side]
    /\ tk_ret' = None
    /\ UNCHANGED tk_now
    /\ UNCHANGED trackerRest

TrackerDetect ==
    /\ \E side \in TrackedSides \cup {"flat", NoSide} :
          /\ tk_call' = [op |-> "detect", side |-> side]
          /\ tk_ret' = detect_flash_crash(side)
    /\ UNCHANGED <<tk_history, tk_now>>
    /\ UNCHANGED trackerRest

\* time passes
TrackerTick ==
    /\ \E t \in Clock : t > tk_now /\ tk_now' = t
    /\ UNCHANGED <<tk_history, tk_call, tk_ret>>
    /\ UNCHANGED trackerRest

TrackerNext == TrackerRecord \/ TrackerDetect \/ TrackerTick

TrackerInit ==
    /\ tk_history = [side \in TrackedSides |-> <<>>]
    /\ tk_now = 0
    /\ tk_call = None
    /\ tk_ret = None
    /\ CoreIdle /\ MarketIdle /\ VaultIdle /\ RequestIdle /\ ExtraIdle

SpecTracker == TrackerInit /\ [][TrackerNext]_vars

(***************************************************************************)
(*   ApiClient._request on its own: specification SpecRequest.  Each       *)
(*   attempt returns a response, fails in the transport, or gets a         *)
(*   response whose status raise_for_status() turns into an HTTPError.     *)
(***************************************************************************)
MaxRetryCount == 3       \* retry_count is drawn from 0..MaxRetryCount

\* requests.exceptions.ConnectionError and Timeout
TransportErrors == {"connection", "timeout"}

\* requests.exceptions.HTTPError, raised by response.raise_for_status()
StatusErrors == {"http_4xx", "http_5xx"}

\* everything `except requests.exceptions.RequestException` catches; HTTPError
\* is a RequestException
RequestExceptions == TransportErrors \cup StatusErrors

requestRest == <<coreVars, marketVars, trackerVars, vaultVars, extraVars>>

\* _request is called: the for loop starts, or ends at once when
\* retry_count is 0
RequestCall ==
    /\ rq_pc = "idle"
    /\ rq_pc' = IF rq_retry_count > 0 THEN "attempt" ELSE "raised"
    /\ UNCHANGED <<rq_retry_count, rq_attempt, rq_errors, rq_sleeps>>
    /\ UNCHANGED requestRest

\* an attempt ends with a response of a good status
RequestReturns ==
    /\ rq_pc = "attempt"
    /\ rq_pc' = "returned"
    /\ UNCHANGED <<rq_retry_count, rq_attempt, rq_errors, rq_sleeps>>
    /\ UNCHANGED requestRest

\* an attempt raises a RequestException: it is kept as last_error, the
\* thread sleeps unless this was the last attempt, and the loop goes on or
\* ends in ApiError
RequestFails(error) ==
    /\ rq_pc = "attempt"
    /\ rq_errors' = Append(rq_errors, error)
    /\ IF rq_attempt < rq_retry_count - 1
       THEN /\ rq_sleeps' = Append(rq_sleeps, 2 ^ rq_attempt)
            /\ rq_attempt' = rq_attempt + 1
            /\ UNCHANGED rq_pc
       ELSE /\ rq_pc' = "raised"
            /\ UNCHANGED <<rq_attempt, rq_sleeps>>
    /\ UNCHANGED rq_retry_count
    /\ UNCHANGED requestRest

RequestAttemptFails == \E error \in RequestExceptions : RequestFails(error)

\* the method is none of GET, POST, DELETE: ApiError leaves the first attempt
RequestUnsupported ==
    /\ rq_pc = "attempt"
    /\ rq_attempt = 0
    /\ rq_pc' = "raised"
    /\ UNCHANGED <<rq_retry_count, rq_attempt, rq_errors, rq_sleeps>>
    /\ UNCHANGED requestRest

RequestNext ==
    \/ RequestCall
    \/ RequestReturns
    \/ RequestAttemptFails
    \/ RequestUnsupported

RequestInit ==
    /\ rq_retry_count \in 0..MaxRetryCount
    /\ rq_pc = "idle"
    /\ rq_attempt = 0
    /\ rq_errors = <<>>
    /\ rq_sleeps = <<>>
    /\ CoreIdle /\ MarketIdle /\ TrackerIdle /\ VaultIdle /\ ExtraIdle

SpecRequest == RequestInit /\ [][RequestNext]_vars

(***************************************************************************)
(*   KeyManager.encrypt and decrypt: specification SpecVault.  A string    *)
(*   is the sequence of its characters; "NUL" stands for the character     *)
(*   U+0000 and " " for any white space.                                   *)
(***************************************************************************)
HexDigits == {"0", "a", "b"}

Nul == "NUL"

\* str.lower(), character by character
lower(s) ==
    [i \in 1..Len(s) |->
        IF s[i] = "A" THEN "a" ELSE IF s[i] = "B" THEN "b"
        ELSE IF s[i] = "X" THEN "x" ELSE s[i]]

RECURSIVE lstrip(_)
lstrip(s) == IF s # <<>> /\ Head(s) = " " THEN lstrip(Tail(s)) ELSE s

RECURSIVE rstrip(_)
rstrip(s) ==
    IF s # <<>> /\ s[Len(s)] = " " THEN rstrip(SubSeq(s, 1, Len(s) - 1)) ELSE s

\* str.strip()
strip(s) == rstrip(lstrip(s))

\* key.startswith("0x")
startswith_0x(s) == Len(s) >= 2 /\ s[1] = "0" /\ s[2] = "x"

\* int(key, 16) succeeds, for a key already stripped and lower-cased: base
\* 16 allows one 0x prefix, and at least one digit must follow
int16_parses(key) ==
    LET digits == IF startswith_0x(key) THEN SubSeq(key, 3, Len(key)) ELSE key
    IN  /\ digits # <<>>
        /\ \A i \in 1..Len(digits) : digits[i] \in HexDigits

\* the block HMAC makes of its key: a key shorter than the hash's block is
\* padded to the block with zero bytes, so the zero bytes a key ends in are
\* part of the padding
RECURSIVE hmac_key_block(_)
hmac_key_block(key) ==
    IF key # <<>> /\ key[Len(key)] = Nul
    THEN hmac_key_block(SubSeq(key, 1, Len(key) - 1))
    ELSE key

\* _derive_key: PBKDF2-HMAC-SHA256 of the password under self.salt, taken as
\* free of collisions between different key blocks or salts
derive_key(password, salt) ==
    [block |-> hmac_key_block(password), salt |-> salt]

urlsafe_b64encode(bytes) == [b64 |-> bytes]

urlsafe_b64decode(text) == text.b64

\* Fernet(key).encrypt(data): an authenticated token
fernet_encrypt(key, data) == [sealed_with |-> key, data |-> data]

Raised(error) == [raises |-> error]

Returned(value) == [returns |-> value]

\* encrypt(private_key, password) under the salt held
encrypt(private_key, password, salt) ==
    IF private_key = <<>> THEN Raised("ValueError")
    ELSE IF Len(password) < 8 THEN Raised("ValueError")
    ELSE LET lowered == lower(strip(private_key))
             key == IF startswith_0x(lowered)
                    THEN SubSeq(lowered, 3, Len(lowered)) ELSE lowered
         IN  IF ~int16_parses(key) THEN Raised("ValueError")
             ELSE Returned(
                    [version |-> 1,
                     salt |-> urlsafe_b64encode(salt),
                     encrypted |-> urlsafe_b64encode(
                         fernet_encrypt(derive_key(password, salt), key)),
                     key_length |-> Len(key)])

\* decrypt(encrypted_data, password)
decrypt(encrypted_data, password) ==
    LET salt == urlsafe_b64decode(encrypted_data.salt)
        token == urlsafe_b64decode(encrypted_data.encrypted)
    IN  IF token.sealed_with # derive_key(password, salt)
        THEN Raised("InvalidPasswordError")
        ELSE Returned(<<"0", "x">> \o token.data)

\* ---- inputs of the vault model
Salts == {"s1", "s2"}

KeyInputs ==
    { <<"0", "x", "A", "b">>, <<"0", "X", "a", "B">>, <<"a", "B", "0">>,
      <<" ", "0", "x", "b", " ">>, <<"0", "x">>, <<"0", "x", "g">>,
      <<"0", "x", "0", "x", "a">>, <<>> }

\* seven characters followed by up to two more
Passwords ==
    { [i \in 1..7 |-> "p"] \o tail :
        tail \in UNION {[1..n -> {"q", Nul}] : n \in 0..2} }

vaultRest == <<coreVars, marketVars, trackerVars, requestVars, extraVars>>

VaultEncrypt ==
    /\ \E private_key \in KeyInputs, password \in Passwords :
          LET result == encrypt(private_key, password, kv_salt)
          IN  /\ kv_call' = [op |-> "encrypt", private_key |-> private_key,
                             password |-> password]
              /\ kv_ret' = result
              /\ kv_envelope' =
                   IF "returns" \in DOMAIN result
                   THEN [data |-> result.returns, private_key |-> private_key,
                         password |-> password]
                   ELSE kv_envelope
              /\ kv_earlier' =
                   IF "returns" \in DOMAIN result /\ kv_envelope # None
                   THEN kv_earlier \cup {kv_envelope.data.salt}
                   ELSE kv_earlier
    /\ UNCHANGED kv_salt
    /\ UNCHANGED vaultRest

\* decrypt() of the envelope last made; self.salt becomes the envelope's
VaultDecrypt ==
    /\ kv_envelope # None
    /\ \E password \in Passwords :
          /\ kv_call' = [op |-> "decrypt", password |-> password]
          /\ kv_ret' = decrypt(kv_envelope.data, password)
    /\ kv_salt' = urlsafe_b64decode(kv_envelope.data.salt)
    /\ UNCHANGED <<kv_envelope, kv_earlier>>
    /\ UNCHANGED vaultRest

\* generate_new_salt()
VaultNewSalt ==
    /\ \E salt \in Salts : salt # kv_salt /\ kv_salt' = salt
    /\ UNCHANGED <<kv_envelope, kv_earlier, kv_call, kv_ret>>
    /\ UNCHANGED vaultRest

VaultNext == VaultEncrypt \/ VaultDecrypt \/ VaultNewSalt

VaultInit ==
    /\ kv_salt \in Salts
    /\ kv_envelope = None
    /\ kv_earlier = {}
    /\ kv_call = None
    /\ kv_ret = None
    /\ CoreIdle /\ MarketIdle /\ TrackerIdle /\ RequestIdle /\ ExtraIdle

SpecVault == VaultInit /\ [][VaultNext]_vars

(***************************************************************************)
(*   Authenticated operations of ClobClient and RelayerClient:             *)
(*   specification SpecAuth.  An operation builds its headers and hands    *)
(*   them to ApiClient._request, whose attempts are the actions of         *)
(*   SpecRequest.  A credential field is "" or a value; headers are the    *)
(*   set of their names.                                                   *)
(***************************************************************************)
CredFields == {"", "x"}

\* ApiCredentials, or None for a client built without them
ApiCredChoices ==
    {None} \cup [api_key : CredFields, secret : CredFields,
                 passphrase : CredFields]

\* BuilderConfig, or None
BuilderCredChoices ==
    {None} \cup [api_key : CredFields, api_secret : CredFields,
                 api_passphrase : CredFields]

\* ApiCredentials.is_valid()
is_valid(creds) ==
    creds.api_key # "" /\ creds.secret # "" /\ creds.passphrase # ""

\* BuilderConfig.is_configured()
is_configured(creds) ==
    creds.api_key # "" /\ creds.api_secret # "" /\ creds.api_passphrase # ""

L2Headers ==
    {"POLY_ADDRESS", "POLY_SIGNATURE", "POLY_TIMESTAMP", "POLY_API_KEY",
     "POLY_PASSPHRASE"}

BuilderHeaders ==
    {"POLY_BUILDER_API_KEY", "POLY_BUILDER_TIMESTAMP",
     "POLY_BUILDER_PASSPHRASE", "POLY_BUILDER_SIGNATURE"}

\* ClobClient._build_headers: each group of headers is added when its
\* credentials are there and complete, and left out otherwise
clob_build_headers(client) ==
    Returned(
        (IF client.api_creds # None /\ is_valid(client.api_creds)
         THEN L2Headers ELSE {})
        \cup
        (IF client.builder_creds # None /\ is_configured(client.builder_creds)
         THEN BuilderHeaders ELSE {}))

\* RelayerClient._build_headers
relayer_build_headers(client) ==
    IF client.builder_creds = None \/ ~is_configured(client.builder_creds)
    THEN Raised("AuthenticationError")
    ELSE Returned(BuilderHeaders)

build_headers(client) ==
    IF client.class = "ClobClient" THEN clob_build_headers(client)
    ELSE relayer_build_headers(client)

authRest == <<coreVars, marketVars, trackerVars, vaultVars, staleVars,
             hookVars, pricingVars, signerVars>>

\* ClobClient(api_creds=..., builder_creds=...): ApiClient.__init__ runs
\* with its default retry_count
ClobConstruct(api_creds, builder_creds) ==
    /\ au_pc = "none"
    /\ au_client' = [class |-> "ClobClient", api_creds |-> api_creds,
                     builder_creds |-> builder_creds]
    /\ au_pc' = "ready"
    /\ rq_retry_count' = 3
    /\ UNCHANGED <<au_headers, rq_pc, rq_attempt, rq_errors, rq_sleeps>>
    /\ UNCHANGED authRest

\* RelayerClient(builder_creds=...)
RelayerConstruct(builder_creds) ==
    /\ au_pc = "none"
    /\ au_client' = [class |-> "RelayerClient", api_creds |-> None,
                     builder_creds |-> builder_creds]
    /\ au_pc' = "ready"
    /\ rq_retry_count' = 3
    /\ UNCHANGED <<au_headers, rq_pc, rq_attempt, rq_errors, rq_sleeps>>
    /\ UNCHANGED authRest

AuthConstruct ==
    \/ \E api_creds \in ApiCredChoices, builder_creds \in BuilderCredChoices :
           ClobConstruct(api_creds, builder_creds)
    \/ \E builder_creds \in BuilderCredChoices :
           RelayerConstruct(builder_creds)

\* an authenticated operation (post_order, cancel_order, deploy_safe, ...):
\* headers = self._build_headers(...), then self._request(..., headers)
AuthOperation ==
    /\ au_pc = "ready"
    /\ LET headers == build_headers(au_client)
       IN  IF "raises" \in DOMAIN headers
           THEN /\ au_pc' = "auth_error"
                /\ UNCHANGED <<au_headers, rq_pc>>
           ELSE /\ au_pc' = "requested"
                /\ au_headers' = headers.returns
                /\ rq_pc' = IF rq_retry_count > 0 THEN "attempt" ELSE "raised"
    /\ UNCHANGED <<au_client, rq_retry_count, rq_attempt, rq_errors,
                   rq_sleeps>>
    /\ UNCHANGED authRest

AuthNext ==
    \/ AuthConstruct
    \/ AuthOperation
    \/ RequestReturns
    \/ RequestAttemptFails

AuthInit ==
    /\ AuthIdle
    /\ RequestIdle
    /\ CoreIdle /\ MarketIdle /\ TrackerIdle /\ VaultIdle
    /\ StaleIdle /\ HookIdle /\ PricingIdle /\ SignerIdle

SpecAuth == AuthInit /\ [][AuthNext]_vars

(***************************************************************************)
(*   The session with the history of the cache: specification SpecStale.   *)
(*   bk_stale records which cached snapshots were received before the      *)
(*   current connection was made.  The three actions that touch the cache  *)
(*   or make a connection are those of Spec with the history kept; the     *)
(*   other actions are Spec's own.                                         *)
(***************************************************************************)
\* WsConnectOk: whatever the cache holds now was received earlier
StaleConnectOk ==
    /\ ws_pc = "connecting"
    /\ ws_conn' = "open"
    /\ ws_connected' = TRUE
    /\ ws_pc' = IF subscribed_assets # {} THEN "handshake" ELSE "recv"
    /\ bk_stale' = DOMAIN orderbooks
    /\ UNCHANGED <<orderbooks, subscribed_assets, ws_pending, ws_running>>
    /\ UNCHANGED <<current_market, previous_slug, mm_running, mc_pc, mc_old,
                   mc_new, stop_pc>>
    /\ UNCHANGED <<arbVars, pmVars>>
    /\ UNCHANGED sessionOthers

\* WsRecvBook: the snapshot of data.asset_id is of the current connection
StaleRecvBook(data) ==
    /\ ws_pc = "recv"
    /\ ws_conn = "open"
    /\ opportunities_seen < MaxOpportunities
    /\ orderbooks' = handle_message_cache(orderbooks, data)
    /\ handle_book(orderbooks')
    /\ bk_stale' = bk_stale \ {data.asset_id}
    /\ UNCHANGED <<subscribed_assets, ws_pending, ws_running, ws_conn>>
    /\ UNCHANGED <<mmVars, pmVars>>
    /\ UNCHANGED <<cfgVars, trades, total_invested, total_guaranteed_return,
                   last_trade_time, now>>
    /\ UNCHANGED sessionOthers

StaleBook == \E data \in SessionFrames : StaleRecvBook(data)

\* McDiscovered: subscribe(replace=True) empties the cache
StaleDiscovered(market) ==
    /\ mc_pc = "discover"
    /\ IF market = None
       THEN KeepAndSleep /\ UNCHANGED <<subscribed_assets, orderbooks>>
       ELSE IF TokenSet(market) = TokenSet(mc_old)
       THEN UpdateAndSleep(market) /\ UNCHANGED <<subscribed_assets, orderbooks>>
       ELSE IF ~should_switch_market(mc_old, market)
       THEN KeepAndSleep /\ UNCHANGED <<subscribed_assets, orderbooks>>
       ELSE /\ subscribed_assets' = TokenSet(market)
            /\ orderbooks' = EmptyDict
            /\ IF ~is_connected
               THEN UpdateAndSleep(market)
               ELSE /\ mc_pc' = IF subscribed_assets # {} THEN "send_unsub"
                                                          ELSE "send_sub"
                    /\ mc_new' = market
                    /\ UNCHANGED <<current_market, previous_slug, mc_old>>
    /\ bk_stale' = bk_stale \cap DOMAIN orderbooks'
    /\ UNCHANGED <<mm_running, ws_connected, stop_pc>>
    /\ UNCHANGED <<ws_pending, ws_running, ws_conn, ws_pc>>
    /\ UNCHANGED <<arbVars, pmVars>>
    /\ UNCHANGED sessionOthers

StaleDiscovery ==
    \E market \in Discoverable \cup {None} : StaleDiscovered(market)

StaleNext ==
    \/ StaleConnectOk
    \/ WsConnectFail
    \/ WsWake
    \/ WsHandshake
    \/ ConnDrop
    \/ WsRecvClosed
    \/ StaleBook
    \/ BatchReturns
    \/ McWake
    \/ StaleDiscovery
    \/ McUnsubSent
    \/ McSubSent
    \/ StopBegin
    \/ StopCancelWs
    \/ StopDisconnect
    \/ Tick

SpecStale == Init /\ [][StaleNext]_vars

(***************************************************************************)
(*   The client with disconnect(): specification SpecHooks.  The actions   *)
(*   of SpecClient, and a task that calls MarketWebSocket.disconnect()     *)
(*   at any moment; ws_conn is "none" once disconnect() has set _ws to     *)
(*   None.                                                                 *)
(***************************************************************************)
hooksRest == <<marketVars, trackerVars, vaultVars, requestVars, authVars,
               staleVars, pricingVars, signerVars, pmVars, mmVars, arbVars,
               connectVars, fanVars, switchVars, ws_pending>>

\* what a step of disconnect() leaves as it is
hooksFrame == <<orderbooks, subscribed_assets, ws_pc, auto_reconnect, ws_sent,
                ws_handled, ws_event, connects, stop_called, sub_pc, sub_call,
                sub_conn, sub_ret, sub_calls>>

\* disconnect() is called: _running = False, and _ws.close() is awaited
\* when there is a _ws
DisconnectCall ==
    /\ dc_pc = "idle"
    /\ ws_running' = FALSE
    /\ IF ws_conn = "none"
       THEN dc_pc' = "done" /\ UNCHANGED ws_conn
       ELSE dc_pc' = "closing" /\ ws_conn' = "closed"
    /\ UNCHANGED hook_disconnects
    /\ UNCHANGED <<hooksFrame, hooksRest>>

\* disconnect(): close() returned; _ws = None and the disconnect hook
DisconnectClosed ==
    /\ dc_pc = "closing"
    /\ ws_conn' = "none"
    /\ hook_disconnects' = hook_disconnects + 1
    /\ dc_pc' = "done"
    /\ UNCHANGED ws_running
    /\ UNCHANGED <<hooksFrame, hooksRest>>

\* the recv() that was pending when disconnect() closed the connection
\* raises ConnectionClosed: break
HooksRecvClosed ==
    /\ ws_pc = "recv"
    /\ ws_conn = "none"
    /\ ws_event' = "closed"
    /\ ClientLoopExit
    /\ UNCHANGED <<orderbooks, ws_handled>>
    /\ UNCHANGED loopFrame
    /\ UNCHANGED clientRest

HooksNext ==
    \/ ClientConnectOk
    \/ ClientConnectFail
    \/ ClientWake
    \/ ClientHandshakeDone
    \/ FrameArrivesAtClient
    \/ ClientRecvTimeout
    \/ ClientRecvGarbled
    \/ ClientRecvClosed
    \/ ClientConnDrop
    \/ ClientStop
    \/ SubscribeCalled
    \/ ClientUnsubSent
    \/ ClientSubSent
    \/ DisconnectCall
    \/ DisconnectClosed
    \/ HooksRecvClosed

SpecHooks == ClientInit /\ [][HooksNext]_vars

(***************************************************************************)
(*   The prices of a pair in floating point: specification SpecPricing.    *)
(*   handle_book and _handle_arb compute with Python floats.  A float is   *)
(*   modelled as a binary floating-point number of MantissaBits            *)
(*   significant bits, rounded to nearest with ties to even, as IEEE 754   *)
(*   doubles are with 53 bits; it is held as the integer n that stands     *)
(*   for n / 2^Scale.  Configuration values and asks are decimal literals  *)
(*   of two places, given in hundredths.                                   *)
(***************************************************************************)
MantissaBits == 11       \* significant bits of a float

\* the smallest literal, 0.01, lies in [2^-7, 2^-6)
Scale == MantissaBits + 6

FloatOne == 2 ^ Scale

RECURSIVE bit_length(_)
bit_length(n) == IF n = 0 THEN 0 ELSE 1 + bit_length(n \div 2)

\* the quotient num / den rounded to an integer, ties to even
round_half_even(num, den) ==
    LET q == num \div den
        r == num % den
    IN  IF 2 * r > den \/ (2 * r = den /\ q % 2 = 1) THEN q + 1 ELSE q

\* the float nearest to num / (den * 2^Scale), for num >= 0
nearest_float(num, den) ==
    LET excess == bit_length(num \div den) - MantissaBits
    IN  IF excess <= 0 THEN round_half_even(num, den)
        ELSE round_half_even(num, den * 2 ^ excess) * 2 ^ excess

\* the result of an arithmetic operation whose exact value is n / 2^Scale
fl(n) == IF n >= 0 THEN nearest_float(n, 1) ELSE 0 - nearest_float(0 - n, 1)

\* the float a decimal literal of two places denotes
float_of_hundredths(k) == nearest_float(k * FloatOne, 100)

\* the tests of handle_book and _handle_arb on two best asks, and the limit
\* prices of the pair they let through (None: no order is submitted)
submitted_prices(up_ask, down_ask, price_buffer_, min_spread_) ==
    LET ask_sum == fl(up_ask + down_ask)
        spread == fl(FloatOne - ask_sum)
        actual_spread == fl(spread - fl(2 * price_buffer_))
        cap == float_of_hundredths(99)
    IN  IF ~(spread >= min_spread_) THEN None
        ELSE IF actual_spread <= 0 THEN None
        ELSE [up_price |-> Min(fl(up_ask + price_buffer_), cap),
              down_price |-> Min(fl(down_ask + price_buffer_), cap)]

\* ---- inputs of the pricing model
AskHundredths == 1..99
BufferHundredths == {1, 2}
SpreadHundredths == {2, 3}

pricingRest == <<coreVars, marketVars, trackerVars, vaultVars, requestVars,
                 authVars, staleVars, hookVars, signerVars>>

\* a book update reaches handle_book with both sides present
PricingEvaluate ==
    /\ fp_out = None
    /\ fp_out' = submitted_prices(float_of_hundredths(fp_in.up_ask),
                                  float_of_hundredths(fp_in.down_ask),
                                  float_of_hundredths(fp_in.price_buffer),
                                  float_of_hundredths(fp_in.min_spread))
    /\ UNCHANGED fp_in
    /\ UNCHANGED pricingRest

PricingNext == PricingEvaluate

PricingInit ==
    /\ fp_in \in [up_ask : AskHundredths, down_ask : AskHundredths,
                  price_buffer : BufferHundredths,
                  min_spread : SpreadHundredths]
    /\ fp_out = None
    /\ CoreIdle /\ MarketIdle /\ TrackerIdle /\ VaultIdle /\ RequestIdle
    /\ AuthIdle /\ StaleIdle /\ HookIdle /\ SignerIdle

SpecPricing == PricingInit /\ [][PricingNext]_vars

(***************************************************************************)
(*   Order and OrderSigner: specification SpecSigner.  Orders are built    *)
(*   and signed while the clock runs; the clock is read in half seconds,   *)
(*   so that two calls can fall within one second.                         *)
(***************************************************************************)
MaxHalfSeconds == 3      \* the clock runs this many half seconds
MaxOrders == 2           \* Order objects constructed
MaxSigned == 2           \* sign_order calls that return

OrderTokens == {"101", "up"}
OrderSides == {"buy", "hold"}
OrderPrices == {0, 50}          \* in hundredths
OrderSizes == {0, 1}
\* Python's None where a nonce is expected
NoNonce == NoTimestamp

NonceArgs == {NoNonce, 7}

\* int(time.time())
int_time(clock) == Epoch + clock \div 2

\* str.upper() on the sides used here
upper(side) ==
    CASE side = "buy" -> "BUY"
      [] side = "sell" -> "SELL"
      [] side = "hold" -> "HOLD"
      [] OTHER -> side

\* int(order.token_id) succeeds
is_decimal(token_id) == token_id \in {"101", "102"}

\* Order(token_id, price, size, side, maker, nonce): __post_init__ at the
\* clock reading given; the fields the signer's salt and nonce depend on
Order(token_id, price, size, side, nonce, clock) ==
    LET side_ == upper(side) IN
    IF side_ \notin {"BUY", "SELL"} THEN Raised("ValueError")
    ELSE IF ~(0 < price /\ price <= 100) THEN Raised("ValueError")
    ELSE IF size <= 0 THEN Raised("ValueError")
    ELSE Returned([token_id |-> token_id,
                   side |-> side_,
                   nonce |-> IF nonce = NoNonce THEN int_time(clock)
                             ELSE nonce,
                   nonce_given |-> nonce # NoNonce,
                   side_value |-> IF side_ = "BUY" THEN 0 ELSE 1])

\* OrderSigner.sign_order(order) at the clock reading given: the order dict
\* (numbers as the strings' values), or SignerError for whatever the body
\* raises
sign_order(order, clock) ==
    LET salt == int_time(clock) IN
    IF ~is_decimal(order.token_id) THEN Raised("SignerError")
    ELSE Returned([salt |-> salt,
                   tokenId |-> order.token_id,
                   nonce |-> order.nonce,
                   nonce_given |-> order.nonce_given,
                   side |-> order.side])

signerRest == <<coreVars, marketVars, trackerVars, vaultVars, requestVars,
                authVars, staleVars, hookVars, pricingVars>>

\* the clock advances by half a second
SignerTick ==
    /\ sg_now < MaxHalfSeconds
    /\ sg_now' = sg_now + 1
    /\ UNCHANGED <<sg_orders, sg_signed, sg_ret>>
    /\ UNCHANGED signerRest

\* an Order is constructed
SignerBuild ==
    /\ Len(sg_orders) < MaxOrders
    /\ \E token_id \in OrderTokens, price \in OrderPrices,
          size \in OrderSizes, side \in OrderSides, nonce \in NonceArgs :
         LET result == Order(token_id, price, size, side, nonce, sg_now) IN
         IF "raises" \in DOMAIN result
         THEN /\ sg_ret' = result.raises
              /\ UNCHANGED sg_orders
         ELSE /\ sg_ret' = "order"
              /\ sg_orders' = Append(sg_orders, result.returns)
    /\ UNCHANGED <<sg_now, sg_signed>>
    /\ UNCHANGED signerRest

\* sign_order is called on an Order constructed earlier
SignerSign ==
    /\ Len(sg_signed) < MaxSigned
    /\ \E i \in 1..Len(sg_orders) :
         LET result == sign_order(sg_orders[i], sg_now) IN
         IF "raises" \in DOMAIN result
         THEN /\ sg_ret' = result.raises
              /\ UNCHANGED sg_signed
         ELSE /\ sg_ret' = "signed"
              /\ sg_signed' = Append(sg_signed, result.returns)
    /\ UNCHANGED <<sg_now, sg_orders>>
    /\ UNCHANGED signerRest

SignerNext == SignerTick \/ SignerBuild \/ SignerSign

SignerInit ==
    /\ SignerIdle
    /\ CoreIdle /\ MarketIdle /\ TrackerIdle /\ VaultIdle /\ RequestIdle
    /\ AuthIdle /\ StaleIdle /\ HookIdle /\ PricingIdle

SpecSigner == SignerInit /\ [][SignerNext]_vars

(***************************************************************************)
(*                         Properties of the session                       *)
(***************************************************************************)
\* a step that hands a batch to place_orders_batch
Submits == Len(orders_sent') = Len(orders_sent) + 1

\* C1: the number of recorded trades never exceeds max_trades; a batch is
\* submitted only while trade_count < max_trades, and never while an earlier
\* batch still awaits its result.
C1_TradeCapHolds ==
    /\ [](trade_count <= max_trades)
    /\ [][Submits => /\ trade_count < max_trades
                     /\ arb_inflight = None
                     /\ ws_pc # "inflight"
                     /\ Len(orders_sent) = trade_count]_vars

\* C1 witness: the cap is reached and a later opportunity went unsubmitted
\* although no buffer could have skipped it
C1_CapReached ==
    /\ trade_count = max_trades
    /\ Len(orders_sent) = trade_count
    /\ opportunities_seen > trade_count
    /\ \A a, b \in ArbAsks :
          1000 - (a + b) >= min_spread => 1000 - (a + b) - 2 * price_buffer > 0

\* C2: every submission starts at least cooldown_seconds after
\* last_trade_time, and no two submissions are closer together than the
\* cooldown.
C2_CooldownHolds ==
    /\ [][Submits => now - last_trade_time >= cooldown_seconds]_vars
    /\ [](\A i, j \in 1..Len(orders_sent) :
             i < j => orders_sent[j].at - orders_sent[i].at >= cooldown_seconds)

\* C2 witness: a second batch went out, a cooldown after the first
C2_SecondSubmission ==
    /\ Len(orders_sent) = 2
    /\ Len(trades) = 1
    /\ orders_sent[2].at - last_trade_time >= cooldown_seconds

\* the checks of a paired order, for the asks the update left in the cache
PairChecksPass(up_ask, down_ask) ==
    LET spread == 1000 - (up_ask + down_ask)
    IN  /\ spread >= min_spread
        /\ trade_count < max_trades
        /\ now - last_trade_time >= cooldown_seconds
        /\ spread - 2 * price_buffer > 0

\* the one batch a paired order is sent as
PairBatch(up_ask, down_ask) ==
    << [token_id |-> current_market.token_ids["up"],
        price |-> Min(up_ask + price_buffer, PriceCap),
        size |-> trade_size, side |-> "BUY"],
       [token_id |-> current_market.token_ids["down"],
        price |-> Min(down_ask + price_buffer, PriceCap),
        size |-> trade_size, side |-> "BUY"] >>

LegSuccess(response, k) ==
    /\ response.shape \in ListShapes \cup {"single"}
    /\ k <= Len(response.items)
    /\ response.items[k]

RECURSIVE FilledProfit(_)
FilledProfit(n) ==
    IF n = 0 THEN 0
    ELSE FilledProfit(n - 1)
         + (IF trades[n].up_order_ok /\ trades[n].down_order_ok
            THEN trades[n].spread * trades[n].size
            ELSE 0)

\* C5: total_profit is the sum of spread * size over the trades with both
\* legs filled, and total_invested and total_guaranteed_return change only
\* when a trade with both legs filled is recorded.
C5_ProfitAccounting ==
    /\ [](total_profit = FilledProfit(Len(trades)))
    /\ [][(\/ total_invested' # total_invested
           \/ total_guaranteed_return' # total_guaranteed_return) =>
            /\ Len(trades') = Len(trades) + 1
            /\ trades'[Len(trades')].up_order_ok
            /\ trades'[Len(trades')].down_order_ok]_vars

\* C5 witness: a filled trade and a partial one; only the first counts
C5_FilledAndPartial ==
    /\ Len(trades) = 2
    /\ both_filled(trades[1])
    /\ trades[2].up_order_ok /\ ~trades[2].down_order_ok
    /\ total_profit = trades[1].spread * trades[1].size
    /\ total_profit > 0
    /\ total_guaranteed_return = trade_size

\* a side of the market has a cached book with at least one ask
HasAsks(cache, market, side) ==
    /\ market # None
    /\ market.token_ids[side] \in DOMAIN cache
    /\ Len(cache[market.token_ids[side]].asks) > 0

\* C6: a side with no cached book or an empty ask list counts as best ask
\* 1.0, and (min_spread being positive) no opportunity is detected and no
\* order submitted while either side has no asks.
C6_NoSignalFromMissingData ==
    /\ [](\A side \in {"up", "down"} :
             ~HasAsks(orderbooks, current_market, side) =>
                get_best_ask(orderbooks, current_market, side) = 1000)
    /\ [][(min_spread > 0 /\ (opportunities_seen' > opportunities_seen \/ Submits)) =>
            /\ HasAsks(orderbooks', current_market', "up")
            /\ HasAsks(orderbooks', current_market', "down")]_vars

\* C6 witness: the down side is offered at almost nothing, the up side's book
\* is cached with no asks, and nothing was detected
C6_OneSideEmpty ==
    /\ current_market = MarketA
    /\ "u1" \in DOMAIN orderbooks /\ "d1" \in DOMAIN orderbooks
    /\ orderbooks["u1"].asks = <<>>
    /\ best_ask(orderbooks["d1"]) = 1
    /\ opportunities_seen = 0
    /\ orders_sent = <<>>

(***************************************************************************)
(*                    Properties of the PositionManager                    *)
(***************************************************************************)
OpenOn(side) == {id \in DOMAIN positions : positions[id].side = side}

\* C7: at most one open position per side, and never more open positions
\* than max_positions.
C7_PositionLimits ==
    /\ \A side \in Sides : Cardinality(OpenOn(side)) <= 1
    /\ Cardinality(DOMAIN positions) <= max_positions

\* C7 witness: the manager is full with two sides open, after a close
C7_ManagerFull ==
    /\ max_positions = 2
    /\ Cardinality(DOMAIN positions) = 2
    /\ trades_closed > 0

\* C8: open_position for a side that is occupied, or at capacity, returns
\* nothing and leaves both indexes, trades_opened and the P&L statistics as
\* they were.
C8_RejectedOpenChangesNothing ==
    [][(/\ pm_call'.op = "open"
        /\ \/ pm_call'.side \in DOMAIN positions_by_side
           \/ Cardinality(DOMAIN positions) >= max_positions) =>
         /\ pm_ret' = None
         /\ positions' = positions
         /\ positions_by_side' = positions_by_side
         /\ trades_opened' = trades_opened
         /\ trades_closed' = trades_closed
         /\ total_pnl' = total_pnl
         /\ winning_trades' = winning_trades
         /\ losing_trades' = losing_trades
         /\ max_positions' = max_positions]_vars

\* C8 witness: an open was rejected for its side alone, below capacity
C8_SideOccupied ==
    /\ pm_call.op = "open"
    /\ pm_ret = None
    /\ pm_call.side \in DOMAIN positions_by_side
    /\ Cardinality(DOMAIN positions) < max_positions

\* C9: close_position of an id that is not open returns nothing and changes
\* nothing; of an open id it removes the position from both indexes, adds one
\* to trades_closed, realized_pnl to total_pnl, and counts a win if
\* realized_pnl >= 0 and a loss otherwise.
C9_ClosePosition ==
    [][pm_call'.op = "close" =>
         LET id == pm_call'.id
             pnl == pm_call'.pnl
         IN  IF id \notin DOMAIN positions
             THEN /\ pm_ret' = None
                  /\ UNCHANGED pmState
             ELSE /\ pm_ret' = positions[id]
                  /\ DOMAIN positions' = DOMAIN positions \ {id}
                  /\ \A x \in DOMAIN positions' : positions'[x] = positions[x]
                  /\ DOMAIN positions_by_side' =
                        DOMAIN positions_by_side \ {positions[id].side}
                  /\ \A sd \in DOMAIN positions_by_side' :
                        positions_by_side'[sd] = positions_by_side[sd]
                  /\ trades_closed' = trades_closed + 1
                  /\ total_pnl' = total_pnl + pnl
                  /\ winning_trades' = winning_trades + (IF pnl >= 0 THEN 1 ELSE 0)
                  /\ losing_trades' = losing_trades + (IF pnl >= 0 THEN 0 ELSE 1)
                  /\ trades_opened' = trades_opened
                  /\ max_positions' = max_positions]_vars

\* C9 witness: a break-even close was counted as a win and freed its side
C9_BreakEvenClose ==
    /\ pm_call.op = "close"
    /\ pm_ret # None
    /\ pm_call.pnl = 0
    /\ winning_trades = 1
    /\ losing_trades = 0
    /\ pm_ret.side \notin DOMAIN positions_by_side

(***************************************************************************)
(*                    Properties of the order-book cache                   *)
(***************************************************************************)
Occurrences(level, levels) ==
    Cardinality({i \in 1..Len(levels) : levels[i] = level})

\* the two lists carry the same levels, each as often
SameLevels(a, b) ==
    /\ Len(a) = Len(b)
    /\ \A i \in 1..Len(b) : Occurrences(b[i], a) = Occurrences(b[i], b)

Descending(levels) ==
    \A i \in 1..(Len(levels) - 1) : levels[i].price >= levels[i + 1].price

Ascending(levels) ==
    \A i \in 1..(Len(levels) - 1) : levels[i].price <= levels[i + 1].price

\* C10: handling a book event leaves as the token's snapshot exactly the
\* levels of the message, bids descending and asks ascending, and every other
\* token's snapshot as it was; price_change and last_trade_price events leave
\* the cache unchanged.
C10_BookReplacesSnapshot ==
    [][(ws_pc = "handling" /\ ws_pc' = "recv") =>
         LET data == Head(ws_pending)
         IN  IF data.event_type = "book"
             THEN /\ DOMAIN orderbooks' = DOMAIN orderbooks \cup {data.asset_id}
                  /\ orderbooks'[data.asset_id].asset_id = data.asset_id
                  /\ SameLevels(orderbooks'[data.asset_id].bids, data.bids)
                  /\ SameLevels(orderbooks'[data.asset_id].asks, data.asks)
                  /\ Descending(orderbooks'[data.asset_id].bids)
                  /\ Ascending(orderbooks'[data.asset_id].asks)
                  /\ \A t \in DOMAIN orderbooks \ {data.asset_id} :
                        orderbooks'[t] = orderbooks[t]
             ELSE orderbooks' = orderbooks]_vars

\* C10 witness: a two-level book of u1 is cached in price order next to a
\* snapshot of d1
C10_SnapshotReplaced ==
    /\ ws_pc = "recv"
    /\ "u1" \in DOMAIN orderbooks /\ "d1" \in DOMAIN orderbooks
    /\ Len(orderbooks["u1"].bids) = 2
    /\ orderbooks["u1"].bids[1].price > orderbooks["u1"].bids[2].price
    /\ Len(orderbooks["u1"].asks) = 2
    /\ orderbooks["u1"].asks[1].price < orderbooks["u1"].asks[2].price
    /\ Len(orderbooks["d1"].asks) = 1

(***************************************************************************)
(*                  Properties of the client: SpecClient                   *)
(***************************************************************************)
\* a step in which subscribe() is called
SubscribeCall == sub_calls' = sub_calls + 1

\* a step in which subscribe() returns
SubscribeReturn ==
    /\ sub_pc' = "idle"
    /\ sub_pc # "idle" \/ SubscribeCall

\* C11: subscribe(ids, replace=true) on an open connection sends the
\* unsubscribe frame for the previous set strictly before the subscribe frame
\* for ids; when it returns the requested set is exactly ids and the cache
\* holds no entry of a previously subscribed token; when the client is not
\* connected no frame is sent.
C11_ReplaceSwapsSubscription ==
    [][ /\ ( /\ SubscribeCall
             /\ is_connected
             /\ sub_call'.replace
             /\ sub_call'.ids # {}
             /\ subscribed_assets # {} )
            => /\ ws_sent' = Append(ws_sent, unsub_msg(subscribed_assets))
               /\ sub_pc' = "send_unsub"
        /\ (sub_pc = "send_unsub" /\ sub_pc' = "send_sub")
            => /\ ws_sent[Len(ws_sent)] = unsub_msg(sub_call.old)
               /\ ws_sent' = Append(ws_sent, sub_msg(sub_call.ids))
        /\ ( /\ SubscribeReturn
             /\ sub_call'.replace
             /\ sub_call'.connected
             /\ sub_ret' = "true" )
            => /\ subscribed_assets' = sub_call'.ids
               /\ \A t \in sub_call'.old \ sub_call'.ids :
                      t \notin DOMAIN orderbooks'
        /\ (SubscribeCall /\ ~is_connected) => ws_sent' = ws_sent
      ]_vars

\* C12: a subscribe() made while disconnected is not lost: it sends nothing and
\* records the ids, and on every successful connect in run() with a non-empty
\* requested set the first outbound frame is the handshake
\* {assets_ids, type: MARKET} listing exactly the ids requested at that moment,
\* handed to send() before any inbound frame of the connection is processed.
C12_HandshakeOnConnect ==
    [][ /\ (SubscribeCall /\ ~is_connected /\ sub_call'.ids # {})
            => /\ ws_sent' = ws_sent
               /\ sub_ret' = "true"
               /\ sub_call'.ids \subseteq subscribed_assets'
        /\ (ws_pc = "connecting" /\ ws_conn' = "open" /\ subscribed_assets # {})
            => /\ Len(ws_sent') = 1
               /\ ws_sent'[1].key = "type"
               /\ ws_sent'[1].value = "MARKET"
               /\ ws_sent'[1].assets_ids = subscribed_assets
               /\ ws_handled' = 0
               /\ ws_pc' = "handshake"
        /\ ws_handled' > ws_handled => ws_pc = "recv"
      ]_vars

\* C12 witness: the second connect of run() succeeded after subscribe() was
\* called while disconnected; the handshake with the ids of that call went out
\* first and a frame has been processed since.
C12_ResubscribedAfterReconnect ==
    /\ connects = 2
    /\ ws_conn = "open"
    /\ sub_call # None
    /\ ~sub_call.connected
    /\ sub_call.ids # {}
    /\ sub_call.old = {}
    /\ ws_sent = <<[key |-> "type", value |-> "MARKET",
                    assets_ids |-> sub_call.ids]>>
    /\ ws_handled = 1

\* a step in which the awaited recv() of _run_loop ends with the event ev
RecvEnds(ev) ==
    /\ ws_pc = "recv"
    /\ ws_event' = ev
    /\ UNCHANGED <<ws_running, ws_conn, ws_handled, connects, sub_pc, sub_calls>>

\* C13: a receive timeout keeps the loop running on the same connection and
\* the disconnect hook is not invoked; a closed-connection error ends the
\* loop and invokes the disconnect hook once, and then, with auto_reconnect
\* and the stop flag unset, run() sleeps and calls connect() again, while
\* with auto_reconnect=false run() returns.
C13_TimeoutStaysClosedReconnects ==
    [][ /\ (RecvEnds("timeout") /\ ws_running)
            => /\ ws_pc' = "recv"
               /\ ws_conn' = "open"
               /\ hook_disconnects' = hook_disconnects
        /\ RecvEnds("closed")
            => /\ hook_disconnects' = hook_disconnects + 1
               /\ (ws_running /\ auto_reconnect) => ws_pc' = "sleeping"
               /\ ~auto_reconnect => ws_pc' = "done"
        /\ (ws_pc = "sleeping" /\ ws_pc' # "sleeping" /\ ws_running)
            => /\ ws_pc' = "connecting"
               /\ connects' = connects + 1
      ]_vars

\* C13 witness: the first connection was closed by the peer, the hook ran
\* once, run() slept and connected again, and on the second connection a
\* receive timeout has left the loop waiting for the next frame.
C13_TimeoutOnSecondConnection ==
    /\ auto_reconnect
    /\ ~stop_called
    /\ connects = 2
    /\ hook_disconnects = 1
    /\ ws_conn = "open"
    /\ ws_event = "timeout"
    /\ ws_pc = "recv"

C15_NoTransportErrorIsFatal ==
    [][ (auto_reconnect /\ ws_running /\ ~stop_called')
            => /\ (ws_pc = "connecting" /\ ws_pc' # ws_pc /\ ws_conn' # "open")
                    => ws_pc' = "sleeping"
               /\ RecvEnds("closed") => ws_pc' = "sleeping"
               /\ (ws_pc = "handshake" /\ ws_pc' # ws_pc /\ ws_conn = "closed")
                    => ws_pc' = "sleeping"
               /\ ws_pc' \notin {"done", "crashed"}
      ]_vars

\* C17: once stop() has set the stop flag during run(), the receive loop halts
\* and the transport is closed: when run() returns no connection is left open,
\* and after it has returned no further frame is handled.
C17_StopClosesTransport ==
    [][ /\ (stop_called /\ ws_pc # "done" /\ ws_pc' = "done")
            => ws_conn' # "open"
        /\ ws_pc = "done"
            => /\ ws_handled' = ws_handled
               /\ ws_pc' = "done"
      ]_vars

(***************************************************************************)
(*                 Properties of connect(): SpecConnect                    *)
(***************************************************************************)
\* a step in which connect() returns or raises
ConnectEnds ==
    /\ conn_ret' # "pending"
    /\ conn_ret = "pending" \/ connects' = connects + 1

\* C18: connect() never raises: it returns true exactly when the transport
\* was established and false otherwise, for every outcome of the transport
\* attempt and of the registered connect and error hooks.
C18_ConnectNeverRaises ==
    [][ ConnectEnds
            => /\ conn_ret' # "raised"
               /\ conn_ret' = "true" <=> conn_call'.established
      ]_vars

(***************************************************************************)
(*                Properties of the fan-out: SpecFanout                    *)
(***************************************************************************)
\* the events of one kind in fan_log, in order
LogOf(kind) ==
    LET Is(e) == e.kind = kind
    IN  SelectSeq(fan_log, Is)

\* the invocations of the observers for item seq, in order
CallsFor(seq) ==
    LET Is(e) == e.kind = "call" /\ e.seq = seq
    IN  SelectSeq(fan_log, Is)

\* the invocations of observer obs, in order
CallsOf(obs) ==
    LET Is(e) == e.kind = "call" /\ e.obs = obs
    IN  SelectSeq(fan_log, Is)

\* the number of items whose fan-out is over
ItemsDone ==
    IF fan_pc \in {"observers", "awaiting"}
    THEN fan_item.seq - 1
    ELSE fan_seq - Len(ws_pending)

\* C16: an observer that raises breaks nothing: for every item handled each
\* registered book observer has been invoked exactly once, in registration
\* order, whatever the observers before it did; the cache write of the item
\* is kept; and the loop goes on to the items that follow.
C16_RaisingObserverContained ==
    /\ \A s \in 1..ItemsDone :
          /\ Len(CallsFor(s)) = Len(observers)
          /\ \A i \in 1..Len(CallsFor(s)) :
                /\ CallsFor(s)[i].obs = i
                /\ CallsFor(s)[i].book = LogOf("recv")[s].book
          /\ Len(LogOf("cache")) >= s
          /\ LogOf("cache")[s].book = LogOf("recv")[s].book
    /\ \A k \in 1..Len(LogOf("cache")) :
          LET written == LogOf("cache")[k].book
          IN  \/ \E l \in (k + 1)..Len(LogOf("cache")) :
                    LogOf("cache")[l].book.asset_id = written.asset_id
              \/ /\ written.asset_id \in DOMAIN orderbooks
                 /\ orderbooks[written.asset_id] = written
    /\ fan_pc = "recv" => ItemsDone = fan_seq

\* C16 witness: the first of two observers raises on every call; two items
\* have been handled, both observers were invoked for each, and the loop is
\* back at recv().
C16_TwoItemsPastRaisingObserver ==
    /\ Len(observers) = 2
    /\ observers[1] = "raises"
    /\ fan_pc = "recv"
    /\ fan_seq = 2
    /\ Len(LogOf("call")) = 4

\* the position in fan_log of the cache write of item seq (0 if none)
CachePos(seq) ==
    LET at == {j \in 1..Len(fan_log) :
                  fan_log[j].kind = "cache" /\ fan_log[j].seq = seq}
    IN  IF at = {} THEN 0 ELSE CHOOSE j \in at : TRUE

\* C19: book observers receive the snapshots in exactly the order in which
\* they were received, across frames and across the items of one array
\* frame; the cache entry of an item is written before its observers run;
\* and the next item is not handled until every observer of the current one,
\* an awaited order submission included, has finished.
C19_SnapshotsInOrder ==
    /\ \A k \in 1..Len(LogOf("cache")) :
          /\ LogOf("cache")[k].seq = k
          /\ LogOf("cache")[k].book = LogOf("recv")[k].book
    /\ \A i \in 1..Len(observers) :
          \A k \in 1..Len(CallsOf(i)) :
              /\ CallsOf(i)[k].seq = k
              /\ CallsOf(i)[k].book = LogOf("recv")[k].book
    /\ \A j \in 1..Len(fan_log) :
          fan_log[j].kind = "call"
              => /\ CachePos(fan_log[j].seq) > 0
                 /\ CachePos(fan_log[j].seq) < j
    /\ fan_pc \in {"observers", "awaiting"}
          => /\ fan_item.book.asset_id \in DOMAIN orderbooks
             /\ orderbooks[fan_item.book.asset_id] = fan_item.book
    /\ \A j \in 1..Len(fan_log) :
          (fan_log[j].kind = "cache" /\ fan_log[j].seq > 1)
              => \A i \in 1..Len(observers) :
                    /\ \E c \in 1..(j - 1) :
                          /\ fan_log[c].kind = "call"
                          /\ fan_log[c].seq = fan_log[j].seq - 1
                          /\ fan_log[c].obs = i
                    /\ observers[i] = "awaits"
                          => \E d \in 1..(j - 1) :
                                /\ fan_log[d].kind = "done"
                                /\ fan_log[d].seq = fan_log[j].seq - 1
                                /\ fan_log[d].obs = i

\* C19 witness: an array frame of two different items arrived; the first item
\* went to both observers, the second of which was awaited to its end, and
\* the second item is now with the awaited observer.
C19_SecondItemOfArrayAwaited ==
    /\ Len(observers) = 2
    /\ observers[2] = "awaits"
    /\ Len(fan_log) >= 2
    /\ fan_log[1].kind = "recv"
    /\ fan_log[2].kind = "recv"
    /\ fan_log[1].book # fan_log[2].book
    /\ fan_pc = "awaiting"
    /\ fan_item.seq = 2
    /\ fan_item.book = fan_log[2].book

(***************************************************************************)
(*            Properties of _should_switch_market: SpecSwitch              *)
(***************************************************************************)
\* C20: _should_switch_market(old, new) is true when there is no current
\* market; false when the token-id sets are equal, even if the slugs differ;
\* true when the token sets differ and the new market's key is strictly later
\* or a key is unavailable for either market; false when the token sets
\* differ but the new market's key is not strictly later.
C20_SwitchDecision ==
    sw_ret # "none" =>
        LET old_tokens == TokenSet(sw_old)
            new_tokens == TokenSet(sw_new)
            new_key == market_sort_key(sw_new)
        IN  /\ sw_old = None => sw_ret = "true"
            /\ (sw_old # None /\ new_tokens = old_tokens) => sw_ret = "false"
            /\ ( /\ sw_old # None
                 /\ new_tokens # old_tokens
                 /\ \/ new_key = NoTimestamp
                    \/ market_sort_key(sw_old) = NoTimestamp
                    \/ new_key > market_sort_key(sw_old) )
                => sw_ret = "true"
            /\ ( /\ sw_old # None
                 /\ new_tokens # old_tokens
                 /\ new_key # NoTimestamp
                 /\ market_sort_key(sw_old) # NoTimestamp
                 /\ new_key <= market_sort_key(sw_old) )
                => sw_ret = "false"

\* C20 witness: a market of other tokens and another slug whose key equals
\* the key of the current market was refused.
C20_EqualKeyRefused ==
    /\ sw_ret = "false"
    /\ sw_old # None
    /\ TokenSet(sw_new) # TokenSet(sw_old)
    /\ sw_new.slug # sw_old.slug
    /\ market_sort_key(sw_old) # NoTimestamp
    /\ market_sort_key(sw_new) = market_sort_key(sw_old)

(***************************************************************************)
(*                  Properties of stop() during a session                  *)
(***************************************************************************)
\* the strategy's record and its counters
ArbBooks == <<trades, total_invested, total_guaranteed_return,
              last_trade_time, opportunities_seen>>

\* C28: when stop() runs while a batch is in flight, the batch already handed
\* to the venue stays handed over (the request is not interrupted), the
\* awaiting handler is dropped with the protocol task, and once stop() has
\* returned no trade record is appended and no counter or accumulator changes.
C28_InflightBatchDiscarded ==
    [][ /\ stop_pc = "stopped" => UNCHANGED ArbBooks
        /\ (stop_pc = "await_mc" /\ ws_pc = "inflight" /\ stop_pc' = "await_ws")
              => /\ arb_inflight' = None
                 /\ ws_pc' = "cancelled"
                 /\ UNCHANGED <<ArbBooks, orders_sent>> ]_vars

\* stop() has returned and the last batch sent has no record
C28_StoppedWithBatchInFlight ==
    /\ stop_pc = "stopped"
    /\ Len(orders_sent) = Len(trades) + 1
    /\ arb_inflight = None

\* C23: stop() cancels the market-check task and has awaited it before it
\* cancels and awaits the protocol task; it closes the transport only after
\* both have ended; it completes without raising; and when it returns both
\* tasks are over, the client is closed and released and is_connected is false.
C23_StopIsOrderly ==
    [][ /\ (stop_pc = "await_mc" /\ stop_pc' # "await_mc") => mc_pc = "cancelled"
        /\ (stop_pc # "running" /\ ws_conn' = "none" /\ ws_conn # "none")
              => mc_pc = "cancelled" /\ ws_pc \in {"done", "cancelled"}
        /\ stop_pc' # "raised"
        /\ stop_pc' = "stopped"
              => /\ mc_pc' = "cancelled"
                 /\ ws_pc' \in {"done", "cancelled"}
                 /\ ws_conn' = "none"
                 /\ ~ws_running'
                 /\ ~ws_connected' ]_vars

(***************************************************************************)
(*                    Properties of place_orders_batch                     *)
(***************************************************************************)
\* the responses the claim is about, for a batch of n legs: an array of n
\* results (plain, under "results" or under "data"), one result object, or
\* a request that raised
ResponsesFor(n) ==
    {response \in Responses :
        \/ response.shape \in ListShapes /\ Len(response.items) = n
        \/ response.shape \in {"single", "raise"}}

\* C25: for a batch of n legs place_orders_batch returns exactly n results in
\* leg order, for each response shape of the venue (plain array, {results},
\* {data}, a single result object) and when the request raises.
C25_OneResultPerLeg ==
    [][\A response \in ResponsesFor(2) :
          OrderComplete(response) =>
             LET orders == arb_inflight.orders
                 results == place_orders_batch(orders, response)
             IN  /\ Len(results) = Len(orders)
                 /\ response.shape \in ListShapes =>
                       \A i \in 1..Len(orders) :
                          results[i].success = response.items[i]]_vars

(***************************************************************************)
(*               Properties of _market_sort_key: SpecSwitch                *)
(***************************************************************************)
\* a decision between two markets of different tokens
SwitchDecided ==
    /\ sw_ret # "none"
    /\ sw_old # None
    /\ TokenSet(sw_new) # TokenSet(sw_old)

\* the slug of the market ends in a timestamp other than 0
HasSlugTime(market) == market.slug_ts # NoTimestamp /\ market.slug_ts # 0

\* the key of a market when the slug-embedded timestamp comes first
SlugFirstKey(market) ==
    IF HasSlugTime(market) THEN market.slug_ts ELSE market.end_ts

\* C27 as stated: the key that orders two markets is the end timestamp
\* whenever the end date parses, so a decision between two markets whose end
\* dates parse follows the end timestamps, whatever the slugs say.
C27_EndTimestampFirst ==
    (SwitchDecided /\ sw_old.end_ts # NoTimestamp /\ sw_new.end_ts # NoTimestamp)
        => (sw_ret = "true" <=> sw_new.end_ts > sw_old.end_ts)

\* C27 amended: the key is the slug-embedded timestamp whenever the slug ends
\* in a number other than 0, and the end timestamp only as a fallback; a
\* decision between two markets whose slugs carry a timestamp follows the
\* slug timestamps, whatever the end dates say.
C27_SlugTimestampFirst ==
    SwitchDecided =>
        /\ sw_ret = "true" <=>
              \/ SlugFirstKey(sw_old) = NoTimestamp
              \/ SlugFirstKey(sw_new) = NoTimestamp
              \/ SlugFirstKey(sw_new) > SlugFirstKey(sw_old)
        /\ (HasSlugTime(sw_old) /\ HasSlugTime(sw_new))
              => (sw_ret = "true" <=> sw_new.slug_ts > sw_old.slug_ts)

\* C27 witness: the end dates put the new market later, the slugs put it
\* earlier, and the switch was refused.
C27_OrdersDisagree ==
    /\ SwitchDecided
    /\ HasSlugTime(sw_old) /\ HasSlugTime(sw_new)
    /\ sw_new.slug_ts < sw_old.slug_ts
    /\ sw_old.end_ts # NoTimestamp /\ sw_new.end_ts # NoTimestamp
    /\ sw_new.end_ts > sw_old.end_ts
    /\ sw_ret = "false"

(***************************************************************************)
(*        Properties of the market-check loop and refresh_market()         *)
(***************************************************************************)
\* C21: whatever the discoveries return and however the market-check loop
\* and refresh_market() interleave, the current market is never replaced by
\* a market of a different token set whose sort key is not strictly later
\* than the key of the market it replaces.
C21_NeverRevertsToStale ==
    [][TokenSet(mk_current') # TokenSet(mk_current)
          => market_sort_key(mk_current') > market_sort_key(mk_current)]_vars

\* the calls of the market-change observers for a change from old to new
ChangeCalls(old_market, new_market) ==
    [i \in 1..Len(mk_observers) |->
        [op |-> "changed", observer |-> i, old |-> old_market.slug,
         new |-> new_market.slug, outcome |-> mk_observers[i]]]

\* C22: in the market-check loop a switch first calls subscribe(new token
\* ids, replace=true) with the current market still in place, then updates
\* the current market, then invokes each market-change observer once, in
\* order, with (old slug, new slug) if and only if the two slugs differ; a
\* re-discovery of the same token-id set updates the market without a
\* subscribe and without invoking an observer.
C22_SwitchSubscribesUpdatesNotifies ==
    [][ /\ (lp_pc = "discover" /\ lp_pc' = "subscribe")
           => /\ lp_trace' = <<SubscribeEvent(lp_new')>>
              /\ mk_subscribed' = TokenSet(lp_new')
              /\ mk_current' = mk_current
        /\ (lp_pc = "subscribe" /\ lp_pc' = "sleep")
           => /\ mk_current' = lp_new
              /\ lp_trace' =
                    <<SubscribeEvent(lp_new), UpdateEvent(lp_new)>>
                    \o (IF lp_old.slug # lp_new.slug
                        THEN ChangeCalls(lp_old, lp_new)
                        ELSE <<>>)
        /\ \A market \in MarketChoices :
              (LoopDiscovered(market) /\ TokenSet(market) = TokenSet(lp_old))
                 => /\ mk_current' = market
                    /\ mk_subscribed' = mk_subscribed
                    /\ lp_trace' = <<UpdateEvent(market)>> ]_vars

\* C22 witness: a switch to a market of another slug was completed with two
\* observers registered, the first of which raised.
C22_SwitchedAndNotified ==
    /\ lp_pc = "sleep"
    /\ Len(lp_trace) = 4
    /\ lp_trace[1].op = "subscribe"
    /\ lp_trace[2].op = "update"
    /\ lp_trace[3].outcome = "raises"
    /\ lp_trace[4].outcome = "returns"
    /\ lp_trace[4].old # lp_trace[4].new
    /\ mk_current.slug = lp_trace[4].new

(***************************************************************************)
(*                Properties of check_all_exits: SpecExits                 *)
(***************************************************************************)
\* the tuple the claim describes for a position at price p
ExitTuple(position, p) ==
    <<position,
      IF p >= position.entry_price + position.take_profit_delta
      THEN "take_profit" ELSE "stop_loss",
      (p - position.entry_price) * position.size>>

\* price p crosses one of the thresholds of the position
Crossed(position, p) ==
    \/ p >= position.entry_price + position.take_profit_delta
    \/ p <= position.entry_price - position.stop_loss_delta

\* the open positions for whose side the caller has passed a price
Priced(prices) == {id \in DOMAIN positions : positions[id].side \in DOMAIN prices}

\* C29 as stated: check_all_exits(prices) reports (position, exit-kind, pnl)
\* for exactly the open positions whose price p for their side satisfies
\* p >= entry + take_profit or p <= entry - stop_loss, with exit-kind
\* take_profit when the first holds and stop_loss otherwise and
\* pnl = (p - entry) * size; the call changes no state.
C29_ExitsForEveryCrossedPrice ==
    [][pm_call'.op = "check_all_exits" =>
          LET prices == pm_call'.prices
          IN  /\ pm_ret' = {ExitTuple(positions[id], prices[positions[id].side]) :
                              id \in {i \in Priced(prices) :
                                 Crossed(positions[i], prices[positions[i].side])}}
              /\ UNCHANGED pmState]_vars

\* C29 amended: the same, for the open positions whose price is positive; a
\* position whose side has no price, or a price of 0 or less, is not reported.
C29_ExitsForCrossedPositivePrice ==
    [][pm_call'.op = "check_all_exits" =>
          LET prices == pm_call'.prices
          IN  /\ pm_ret' = {ExitTuple(positions[id], prices[positions[id].side]) :
                              id \in {i \in Priced(prices) :
                                 /\ prices[positions[i].side] > 0
                                 /\ Crossed(positions[i], prices[positions[i].side])}}
              /\ UNCHANGED pmState]_vars

\* C29 witness: of two open positions one was reported as a take-profit at
\* exactly its threshold and the other, priced at 0, was not reported.
C29_OneExitOnePriceless ==
    /\ pm_call.op = "check_all_exits"
    /\ DOMAIN positions = {"p1", "p2"}
    /\ DOMAIN pm_call.prices = ExitSides
    /\ pm_call.prices["up"] = positions["p1"].entry_price
                                 + positions["p1"].take_profit_delta
    /\ pm_call.prices["down"] = 0
    /\ pm_ret = {<<positions["p1"], "take_profit",
                   positions["p1"].take_profit_delta * positions["p1"].size>>}

(***************************************************************************)
(*             Properties of detect_flash_crash: SpecTracker               *)
(***************************************************************************)
\* the retained points of a history that lie within the lookback window
InWindow(history) ==
    {i \in 1..Len(history) : tk_now - history[i].timestamp <= lookback_seconds}

\* the first of them in insertion order
FirstInWindow(history) ==
    CHOOSE i \in InWindow(history) : \A j \in InWindow(history) : i <= j

\* the three conditions of the claim
CrashConditions(history) ==
    /\ Len(history) >= 2
    /\ InWindow(history) # {}
    /\ history[FirstInWindow(history)].price - history[Len(history)].price
          >= drop_threshold

\* C24: detect_flash_crash(side) returns an event if and only if the side
\* has at least 2 recorded points, at least one retained point lies within
\* lookback_seconds of now, and old - latest >= drop_threshold, old being the
\* price of the first retained point in insertion order inside the window
\* and latest the price of the point recorded last; the event carries those
\* two prices, and the call leaves the history unchanged.
C24_FlashCrashIff ==
    [][\A side \in TrackedSides :
          (tk_call' = [op |-> "detect", side |-> side] /\ tk_now' = tk_now)
             => LET history == tk_history[side]
                IN  /\ tk_ret' # None <=> CrashConditions(history)
                    /\ CrashConditions(history)
                          => /\ tk_ret'.side = side
                             /\ tk_ret'.old_price =
                                   history[FirstInWindow(history)].price
                             /\ tk_ret'.new_price = history[Len(history)].price
                    /\ tk_history' = tk_history]_vars

\* C24 witness: an event was returned for a drop of exactly the threshold
\* from a point exactly lookback_seconds old.
C24_CrashAtBothBoundaries ==
    /\ tk_call = [op |-> "detect", side |-> "down"]
    /\ tk_ret # None
    /\ tk_ret.drop = drop_threshold
    /\ tk_ret.timestamp - tk_history["down"][1].timestamp = lookback_seconds
    /\ tk_ret.old_price = tk_history["down"][1].price

(***************************************************************************)
(*               Properties of ApiClient._request: SpecRequest             *)
(***************************************************************************)
\* the sleeps after the first n failed attempts: 2^k after the k-th, from 0
Backoff(n) == [k \in 1..n |-> 2 ^ (k - 1)]

\* C30: _request makes more than one attempt only for transport failures:
\* a transport failure is retried up to retry_count attempts in all, with a
\* sleep of 2^k seconds after the k-th failed attempt (k from 0) and none
\* after the last, and then ApiError is raised; a response with an HTTP
\* error status is surfaced to the caller after a single attempt.
C30_RetriesTransportOnly ==
    LET failed == Len(rq_errors)
        transport_only ==
            \A i \in DOMAIN rq_errors : rq_errors[i] \in TransportErrors
    IN  /\ failed <= rq_retry_count
        /\ rq_sleeps = Backoff(Len(rq_sleeps))
        /\ \A i \in DOMAIN rq_errors :
              rq_errors[i] \in StatusErrors
                 => /\ i = failed
                    /\ rq_pc = "raised"
                    /\ Len(rq_sleeps) = failed - 1
        /\ (transport_only /\ rq_pc \in {"attempt", "returned"})
              => Len(rq_sleeps) = failed /\ rq_attempt = failed
        /\ (transport_only /\ rq_pc = "raised" /\ failed > 0)
              => failed = rq_retry_count /\ Len(rq_sleeps) = failed - 1

(***************************************************************************)
(*            Properties of the key vault round trip: SpecVault            *)
(***************************************************************************)
\* a hex private key: hex digits, with or without a 0x or 0X prefix
ValidHexKey(k) ==
    LET digits == IF Len(k) >= 2 /\ k[1] = "0" /\ k[2] \in {"x", "X"}
                  THEN SubSeq(k, 3, Len(k)) ELSE k
    IN  /\ digits # <<>>
        /\ \A i \in 1..Len(digits) : digits[i] \in HexDigits \cup {"A", "B"}

\* k lower-cased with a single 0x prefix
Normalised(k) ==
    IF Len(k) >= 2 /\ k[1] = "0" /\ k[2] \in {"x", "X"}
    THEN lower(k)
    ELSE <<"0", "x">> \o lower(k)

\* C26: for a valid hex private key k and a password p of at least 8
\* characters, decrypt(encrypt(k, p), p) returns k lower-cased with a single
\* 0x prefix, and decrypting the same envelope with any other password
\* raises the invalid-password error and never returns a key.
C26_RoundTripAndWrongPassword ==
    (kv_call # None /\ kv_call.op = "decrypt"
        /\ ValidHexKey(kv_envelope.private_key))
       => IF kv_call.password = kv_envelope.password
          THEN kv_ret = Returned(Normalised(kv_envelope.private_key))
          ELSE kv_ret = Raised("InvalidPasswordError")

(***************************************************************************)
(*          Properties of the authenticated operations: SpecAuth           *)
(***************************************************************************)
\* the credentials the client's header scheme signs with are absent or
\* have an empty field
CredentialsLacking(client) ==
    IF client.class = "ClobClient"
    THEN client.api_creds = None \/ ~is_valid(client.api_creds)
    ELSE client.builder_creds = None \/ ~is_configured(client.builder_creds)

OperationInvoked == au_pc \in {"auth_error", "requested"}

\* C31: an authenticated exchange or relayer operation invoked on a client
\* whose credentials are missing or incomplete ends in an authentication
\* error before _request is entered: no headers are handed over, no attempt
\* is made, nothing is retried and nothing sleeps.
C31_AuthErrorBeforeAnyRequest ==
    (OperationInvoked /\ CredentialsLacking(au_client)) =>
        /\ au_pc = "auth_error"
        /\ au_headers = None
        /\ rq_pc = "idle"
        /\ rq_attempt = 0
        /\ rq_errors = <<>>
        /\ rq_sleeps = <<>>

(***************************************************************************)
(*            Properties of the salt of encrypt(): SpecVault               *)
(***************************************************************************)
\* C32: every encrypt() call uses a freshly generated salt: the envelope an
\* encrypt call returns never carries the salt of an envelope returned by an
\* earlier encrypt call, on the same KeyManager or after a decrypt on it.
C32_FreshSaltPerEncrypt ==
    kv_envelope # None => kv_envelope.data.salt \notin kv_earlier

(***************************************************************************)
(*         Properties of the cache across reconnects: SpecStale            *)
(***************************************************************************)
\* the ids of the two sides of the current market
PairTokens == {current_market.token_ids["up"], current_market.token_ids["down"]}

\* C33: after a reconnect a trade decision never uses a stale book: when a
\* book update makes handle_book compute an ask sum (both sides are in the
\* cache), neither of the two snapshots it adds up was received on an
\* earlier connection.
C33_NoStaleBookInAskSum ==
    [][\A data \in SessionFrames :
          (StaleRecvBook(data) /\ current_market # None
              /\ PairTokens \subseteq DOMAIN orderbooks')
          => PairTokens \cap bk_stale' = {}]_vars

(***************************************************************************)
(*        Properties of the cache and the requested set: SpecClient        *)
(***************************************************************************)
\* t was in the requested set when subscribe() was last called
RequestedBefore(t) == sub_call # None /\ t \in sub_call.old

\* C34: every token id with an entry in the order-book cache belongs to the
\* currently requested subscription set; in particular a token the client
\* had requested and then replaced by subscribe(replace=true) has no entry,
\* whenever its last frames arrive.
C34_CacheWithinSubscription ==
    \A t \in DOMAIN orderbooks :
        RequestedBefore(t) => t \in subscribed_assets

(***************************************************************************)
(*     Properties of the subscription and current_market: SpecMarket       *)
(***************************************************************************)
\* neither the loop nor refresh_market() is between its subscribe() and its
\* _update_current_market()
NoSwitchInProgress == lp_pc # "subscribe" /\ rf_pc # "subscribe"

\* C35: whenever no market switch is in progress on a started manager, the
\* streaming client's requested subscription set equals the token-id set of
\* current_market.
C35_SubscriptionMatchesMarket ==
    NoSwitchInProgress => mk_subscribed = TokenSet(mk_current)

(***************************************************************************)
(*        Properties of the connection notifications: SpecHooks            *)
(***************************************************************************)
\* C36: connect and disconnect notifications alternate: the disconnect hook
\* is invoked at most once per established connection, so at any moment it
\* has been invoked no more often than run() has called connect().
C36_DisconnectOncePerConnection == hook_disconnects <= connects

(***************************************************************************)
(*        Properties of the limit prices of a pair: SpecPricing            *)
(***************************************************************************)
\* C37: every submitted pair of limit prices satisfies
\* up_price + down_price < 1.00, for all asks, buffers and min_spread
\* values that pass the trade checks.
C37_PairCostsLessThanPayout ==
    fp_out # None => fp_out.up_price + fp_out.down_price < FloatOne

(***************************************************************************)
(*   Properties of the two position indexes: SpecPM                        *)
(***************************************************************************)
\* side s maps to id i in _positions_by_side
SideEntry(s, i) ==
    s \in DOMAIN positions_by_side /\ positions_by_side[s] = i

\* position i is in _positions and has side s
OpenOnSide(s, i) ==
    i \in DOMAIN positions /\ positions[i].side = s

\* C38: after any sequence of open_position, close_position and clear calls
\* the two indexes agree: side s maps to id i in the side-keyed index exactly
\* when position i is in the id-keyed index and has side s
C38_IndexesAgree ==
    \A s \in Sides, i \in PosIds : SideEntry(s, i) <=> OpenOnSide(s, i)

\* a close has returned one of two open positions and the other one is still
\* held under its side
C38_ClosedOneOfTwo ==
    /\ pm_call.op = "close"
    /\ pm_ret # None
    /\ \E s \in Sides, i \in PosIds : SideEntry(s, i) /\ OpenOnSide(s, i)

(***************************************************************************)
(*   Properties of the statistics: SpecPM                                  *)
(***************************************************************************)
\* C39: after any sequence of open_position, close_position and clear calls
\* (reset_stats is never called) the statistics are conserved:
\* trades_opened = trades_closed + the number of open positions, and
\* trades_closed = winning_trades + losing_trades
C39_StatisticsConserved ==
    /\ trades_opened = trades_closed + position_count
    /\ trades_closed = winning_trades + losing_trades

(***************************************************************************)
(*   Properties of the salts and nonces of orders: SpecSigner              *)
(***************************************************************************)
\* C40: any two orders signed by the same OrderSigner carry different
\* salts, and two orders built without an explicit nonce carry different
\* nonces, also when both are created within the same clock second
C40_SaltsAndNoncesDiffer ==
    /\ \A i, j \in 1..Len(sg_signed) :
         i # j => sg_signed[i].salt # sg_signed[j].salt
    /\ \A i, j \in 1..Len(sg_orders) :
         (i # j /\ ~sg_orders[i].nonce_given /\ ~sg_orders[j].nonce_given)
             => sg_orders[i].nonce # sg_orders[j].nonce

=============================================================================
